---- MODULE Spec2Model ----
(***************************************************************************)
(* State-machine model of the signal pipeline of iraqdev/allinonetest1:    *)
(*   - SignalGenerator: per-name signal cache, refresh schedule and the    *)
(*     computation of the signals (signal_generator.py),                   *)
(*   - TradingSystem.start: the polling loop and its market snapshot       *)
(*     (main.py),                                                          *)
(*   - SignalProcessor.process_signals: weighted fusion                    *)
(*     (signal_processor.py),                                              *)
(*   - SolanaClient: _make_request, get_transactions, the whale transfers  *)
(*     (solana_client.py, order_flow.py),                                  *)
(*   - BinanceClient: signed requests and the base URL                     *)
(*     (binance_client.py).                                                *)
(* Time is in whole seconds, as int(time.time()) yields it.  Confidences   *)
(* and weights are in hundredths, so 0.7 is 70 and the weight 0.20 is 20;  *)
(* the arithmetic on them is Python's float arithmetic.                    *)
(***************************************************************************)
EXTENDS Integers, Sequences, FiniteSets, TLC

VARIABLES
    now,            \* the wall clock, int(time.time())
    last_update,    \* SignalGenerator.last_update : name -> time
    signal_cache,   \* SignalGenerator.signal_cache : name -> SignalData
    next_oid,       \* identity of the next SignalData object allocated
    last_call,      \* observation of the last generate_* invocation
    pc,             \* position of TradingSystem.start
    is_running,     \* TradingSystem.is_running
    sig_index,      \* position of get_all_signals in its list of names
    signals,        \* the dict get_all_signals is building / has returned
    decision,       \* result of the last process_signals call of the loop
    db_open,        \* the Database connection is open
    iterations,     \* completed loop iterations (observation)
    pass_raised,    \* names whose computation raised in the current pass
    last_market_data_time,  \* local of start: time of the last snapshot attempt
    market,         \* what the indicators read from the market
    focus,          \* the signal name a client of SignalGenerator works with
    fuse_in,        \* the arguments of a process_signals call
    fuse_out,       \* what that call returned
    last_decision,  \* SignalProcessor.last_decision
    rpc_pc,                 \* position of SolanaClient._make_request
    retry_count,            \* local of _make_request
    current_endpoint_index, \* local of _make_request
    n_requests,             \* requests.post calls made by this call
    seen,                   \* kinds of the responses received by this call
    last_error,             \* kind of the last failed response
    slept,                  \* the sleeps of the last loop iteration, in order
    delays,                 \* the first sleeps of this call, in order
    rpc_outcome,            \* how the call ended
    clock_ms,       \* the wall clock in milliseconds, int(time.time() * 1000)
    mappings,       \* the params dicts a caller of BinanceClient keeps
    request,        \* the last request BinanceClient._request sent
    sign_count,     \* signed requests made
    base_url,       \* BinanceClient.base_url
    callers,        \* position and locals of each caller of a BinanceClient method
    issued,         \* the requests BinanceClient._request issued, in order
    thread_pc,      \* position of each concurrent caller of a generate_*
    tx,             \* the locals of a SolanaClient.get_transactions call
    probe           \* a method call that is observed: its arguments and result

genVars  == <<now, last_update, signal_cache, next_oid, last_call>>
clientVars == <<focus>>
fuseVars == <<fuse_in, fuse_out, last_decision>>
rpcVars == <<rpc_pc, retry_count, current_endpoint_index, n_requests, seen,
             last_error, slept, delays, rpc_outcome>>
loopVars == <<pc, is_running, sig_index, signals, decision, db_open,
              iterations, pass_raised, last_market_data_time, market>>
urlVars == <<base_url, callers, issued>>
signVars == <<clock_ms, mappings, request, sign_count, urlVars>>
raceVars == <<thread_pc>>
txVars == <<tx>>
probeVars == <<probe>>
vars == <<genVars, loopVars, clientVars, fuseVars, rpcVars, signVars, raceVars,
          txVars, probeVars>>

----------------------------------------------------------------------------
(* Bounds of the model *)

\* the clock at construction
StartTime == 1000
\* the model stops the clock after this many seconds
MaxElapsed == 190

\* seconds that may pass between the clock read that stamps a fresh signal
\* and the one that sets last_update
ClockGaps == {0, 1}
\* seconds that may pass between two calls of a client of SignalGenerator
TickSteps == {5, 55}
\* seconds an indicator computation (network calls included) may take
Durations == {0, 65}

MaxTime == StartTime + MaxElapsed

----------------------------------------------------------------------------
(* config.py *)

\* the order in which get_all_signals generates the signals
SignalOrder ==
    <<"ORDER_FLOW", "BLOCKCHAIN_OI", "MARKET_DEPTH", "SENTIMENT", "ON_CHAIN", "SCALP">>

INDICATORS ==
    [ORDER_FLOW    |-> [update_interval |-> 60,  validity_period |-> 120],
     BLOCKCHAIN_OI |-> [update_interval |-> 120, validity_period |-> 180],
     MARKET_DEPTH  |-> [update_interval |-> 60,  validity_period |-> 120],
     SENTIMENT     |-> [update_interval |-> 180, validity_period |-> 180],
     ON_CHAIN      |-> [update_interval |-> 120, validity_period |-> 180],
     SCALP         |-> [update_interval |-> 60,  validity_period |-> 120]]

Names == DOMAIN INDICATORS

----------------------------------------------------------------------------
(* signal_generator.py *)

\* dict.get(key, default)
DictGet(d, key, default) == IF key \in DOMAIN d THEN d[key] ELSE default

\* d[key] = value
DictPut(d, key, value) ==
    [k \in DOMAIN d \cup {key} |-> IF k = key THEN value ELSE d[k]]

\* The indicator methods each generate_* function calls, in call order.
IndicatorCalls ==
    [ORDER_FLOW    |-> <<"calculate_delta", "calculate_footprint", "track_whale_transfers">>,
     BLOCKCHAIN_OI |-> <<"track_whale_transfers", "get_open_interest", "calculate_vwap">>,
     MARKET_DEPTH  |-> <<"detect_icebergs", "calculate_cvd", "detect_spoofing">>,
     SENTIMENT     |-> <<"get_long_short_ratio", "get_funding_rate", "calculate_footprint">>,
     ON_CHAIN      |-> <<"get_onchain_metrics">>,
     SCALP         |-> <<"calculate_delta", "detect_icebergs", "track_whale_transfers">>]

\* The indicator methods with no try/except around their client calls: a
\* client error (BinanceClient._request re-raises, SolanaClient raises)
\* propagates out of them.  All other indicator methods catch Exception and
\* return zeroed data.
PropagatingIndicators ==
    {"calculate_delta", "calculate_footprint", "track_whale_transfers"}

\* The positions (1-based) in IndicatorCalls[name] at which the computation of
\* `name` can raise; 0 stands for "no call raises".
FailurePoints(name) ==
    {0} \cup {i \in 1..Len(IndicatorCalls[name]) :
                  IndicatorCalls[name][i] \in PropagatingIndicators}

\* The confidence levels (hundredths) each generate_* function assigns.
ConfidenceLevels ==
    [ORDER_FLOW    |-> {70, 90},
     BLOCKCHAIN_OI |-> {70, 90},
     MARKET_DEPTH  |-> {70, 85},
     SENTIMENT     |-> {70, 85, 95},
     ON_CHAIN      |-> {70, 90},
     SCALP         |-> {65, 80, 95}]

SetMax(S) == CHOOSE x \in S : \A y \in S : y <= x
SetMin(S) == CHOOSE x \in S : \A y \in S : x <= y

\* The market conditions a pass over the signals may meet.
Markets == {"bullish", "flat"}

\* What the indicator computation of `name` yields under a market condition,
\* as (direction, signal_strength in 0..100, confidence): in a bullish market
\* the components agree on buying (the highest confidence level), in a flat
\* market they cancel out (direction 0, the default confidence level).
Reading(name, m) ==
    IF m = "bullish"
    THEN [direction |-> 1, signal_strength |-> 80,
          confidence |-> SetMax(ConfidenceLevels[name])]
    ELSE [direction |-> 0, signal_strength |-> 40,
          confidence |-> SetMin(ConfidenceLevels[name])]

\* SignalData(...) as the generate_* functions build it: the strength carries
\* the direction's sign (strength = signal_strength * direction).
\* `components` holds the raw indicator data and is not modelled.
SignalData(name, timestamp, direction, signal_strength, confidence, oid) ==
    [name       |-> name,
     timestamp  |-> timestamp,
     strength   |-> signal_strength * direction,
     direction  |-> direction,
     confidence |-> confidence,
     validity   |-> INDICATORS[name].validity_period,
     oid        |-> oid]

ShouldUpdateIgnoringLast(signal_name, current_time) ==
    IF signal_name \notin Names
    THEN TRUE
    ELSE current_time >= INDICATORS[signal_name].update_interval

_should_update_signal(signal_name, current_time) ==
    IF signal_name \notin Names
    THEN TRUE
    ELSE (current_time - DictGet(last_update, signal_name, 0))
             >= INDICATORS[signal_name].update_interval

_is_signal_valid(signal_name, current_time) ==
    IF signal_name \notin DOMAIN signal_cache
    THEN FALSE
    ELSE (current_time - signal_cache[signal_name].timestamp)
             <= INDICATORS[signal_name].validity_period


NoSignal == [name |-> "none"]

NoCall ==
    [name |-> "none", outcome |-> "none", result |-> NoSignal,
     indicator_calls |-> 0, failed_call |-> 0]

\* Every generate_* function starts with the cache-hit test
\*   if not self._should_update_signal(N) and self._is_signal_valid(N)
\* Its two clock reads are consecutive and fall in the same second, `now`.

\* generate_*: the cached signal is returned; nothing is computed or stored.
GenerateCached(name) ==
    /\ ~_should_update_signal(name, now)
    /\ _is_signal_valid(name, now)
    /\ last_call' = [name |-> name, outcome |-> "cached",
                     result |-> signal_cache[name],
                     indicator_calls |-> 0, failed_call |-> 0]
    /\ UNCHANGED <<now, last_update, signal_cache, next_oid>>

\* the cache-hit test fails: the signal is due, or not valid
CacheMiss(name) ==
    _should_update_signal(name, now) \/ ~_is_signal_valid(name, now)

\* generate_* stamping last_update before its indicator calls, which then
\* raise
GenerateRaisesStamped(name) ==
    \E dur \in Durations, fail_at \in FailurePoints(name) \ {0} :
        /\ CacheMiss(name)
        /\ now + dur <= MaxTime
        /\ now' = now + dur
        /\ last_update' = DictPut(last_update, name, now)
        /\ last_call' = [name |-> name, outcome |-> "raised",
                         result |-> NoSignal,
                         indicator_calls |-> fail_at, failed_call |-> fail_at]
        /\ UNCHANGED <<signal_cache, next_oid>>

\* generate_*: an indicator call raises; the exception leaves the function
\* before the SignalData is built, so nothing is stored.
GenerateRaises(name) ==
    \E dur \in Durations, fail_at \in FailurePoints(name) \ {0} :
        /\ CacheMiss(name)
        /\ now + dur <= MaxTime
        /\ now' = now + dur
        /\ last_call' = [name |-> name, outcome |-> "raised",
                         result |-> NoSignal,
                         indicator_calls |-> fail_at, failed_call |-> fail_at]
        /\ UNCHANGED <<last_update, signal_cache, next_oid>>

\* generate_* reading the clock for last_update before its indicator calls
GenerateComputesStampedFirst(name, gaps) ==
    \E dur \in Durations, gap \in gaps :
        LET timestamp == now + dur
            reading == Reading(name, market)
            signal == SignalData(name, timestamp, reading.direction,
                                 reading.signal_strength, reading.confidence,
                                 next_oid)
        IN  /\ CacheMiss(name)
            /\ timestamp + gap <= MaxTime
            /\ signal_cache' = DictPut(signal_cache, name, signal)
            /\ last_update' = DictPut(last_update, name, now)
            /\ now' = timestamp + gap
            /\ next_oid' = next_oid + 1
            /\ last_call' = [name |-> name, outcome |-> "computed",
                             result |-> signal,
                             indicator_calls |-> Len(IndicatorCalls[name]),
                             failed_call |-> 0]

\* generate_*: every indicator call returns; the fresh SignalData is stamped
\* with the clock, stored in signal_cache, and last_update is set from a
\* further clock read, `gap` seconds later.
GenerateComputes(name, gaps) ==
    \E dur \in Durations, gap \in gaps :
        LET timestamp == now + dur
            reading == Reading(name, market)
            signal == SignalData(name, timestamp, reading.direction,
                                 reading.signal_strength, reading.confidence,
                                 next_oid)
        IN  /\ CacheMiss(name)
            /\ timestamp + gap <= MaxTime
            /\ signal_cache' = DictPut(signal_cache, name, signal)
            /\ last_update' = DictPut(last_update, name, timestamp + gap)
            /\ now' = timestamp + gap
            /\ next_oid' = next_oid + 1
            /\ last_call' = [name |-> name, outcome |-> "computed",
                             result |-> signal,
                             indicator_calls |-> Len(IndicatorCalls[name]),
                             failed_call |-> 0]

\* One call of the generate_* function of `name`.
Generate(name, gaps) ==
    \/ GenerateCached(name)
    \/ GenerateRaises(name)
    \/ GenerateComputes(name, gaps)

----------------------------------------------------------------------------
(* Python float arithmetic (IEEE 754 binary64, round to nearest, ties to   *)
(* even), as signal_processor.py uses it.  A natural number too wide for   *)
(* an integer of the model is a sequence of limbs, least significant       *)
(* first, without leading zero limbs; a float is sign * m * 2^e with m     *)
(* either zero or of exactly MantissaBits bits.                            *)

LimbBits == 14
LimbBase == 16384
MantissaBits == 53
\* limbs of a mantissa, and of the quotient FDiv computes before rounding
QuotientLimbs == 4

RECURSIVE Pow2(_)
Pow2(n) == IF n <= 0 THEN 1 ELSE 2 * Pow2(n - 1)

RECURSIVE BigTrim(_)
BigTrim(a) ==
    IF a = <<>> THEN a
    ELSE IF a[Len(a)] = 0 THEN BigTrim(SubSeq(a, 1, Len(a) - 1))
    ELSE a

RECURSIVE BigFromInt(_)
BigFromInt(n) ==
    IF n = 0 THEN <<>> ELSE <<n % LimbBase>> \o BigFromInt(n \div LimbBase)

RECURSIVE BigAddC(_, _, _)
BigAddC(a, b, carry) ==
    IF a = <<>> /\ b = <<>> THEN (IF carry = 0 THEN <<>> ELSE <<carry>>)
    ELSE LET x == (IF a = <<>> THEN 0 ELSE Head(a))
                  + (IF b = <<>> THEN 0 ELSE Head(b)) + carry
         IN  <<x % LimbBase>> \o BigAddC(IF a = <<>> THEN a ELSE Tail(a),
                                         IF b = <<>> THEN b ELSE Tail(b),
                                         x \div LimbBase)

BigAdd(a, b) == BigAddC(a, b, 0)

\* a - b - borrow for a >= b + borrow
RECURSIVE BigSubB(_, _, _)
BigSubB(a, b, borrow) ==
    IF a = <<>> THEN <<>>
    ELSE LET x == Head(a) - (IF b = <<>> THEN 0 ELSE Head(b)) - borrow
         IN  <<x % LimbBase>> \o BigSubB(Tail(a),
                                         IF b = <<>> THEN b ELSE Tail(b),
                                         IF x < 0 THEN 1 ELSE 0)

BigSub(a, b) == BigTrim(BigSubB(a, b, 0))

\* -1, 0 or 1 as a < b, a = b or a > b
RECURSIVE BigCmp(_, _)
BigCmp(a, b) ==
    IF Len(a) # Len(b) THEN (IF Len(a) < Len(b) THEN -1 ELSE 1)
    ELSE IF a = <<>> THEN 0
    ELSE IF a[Len(a)] # b[Len(b)] THEN (IF a[Len(a)] < b[Len(b)] THEN -1 ELSE 1)
    ELSE BigCmp(SubSeq(a, 1, Len(a) - 1), SubSeq(b, 1, Len(b) - 1))

\* a * k + carry for a limb k
RECURSIVE BigMulSmallC(_, _, _)
BigMulSmallC(a, k, carry) ==
    IF a = <<>> THEN (IF carry = 0 THEN <<>> ELSE <<carry>>)
    ELSE LET x == Head(a) * k + carry
         IN  <<x % LimbBase>> \o BigMulSmallC(Tail(a), k, x \div LimbBase)

BigMulSmall(a, k) == BigTrim(BigMulSmallC(a, k, 0))

\* a * LimbBase
BigShiftLimb(a) == IF a = <<>> THEN a ELSE <<0>> \o a

RECURSIVE BigMul(_, _)
BigMul(a, b) ==
    IF a = <<>> \/ b = <<>> THEN <<>>
    ELSE BigAdd(BigMulSmall(a, Head(b)), BigShiftLimb(BigMul(a, Tail(b))))

\* a * 2^k
BigShl(a, k) ==
    IF a = <<>> THEN a
    ELSE [i \in 1..(k \div LimbBits) |-> 0] \o BigMulSmall(a, Pow2(k % LimbBits))

\* floor(a / d) for a limb d >= 1, from the most significant limb down
RECURSIVE BigDivSmallR(_, _, _)
BigDivSmallR(a, d, rem) ==
    IF a = <<>> THEN <<>>
    ELSE LET x == rem * LimbBase + a[Len(a)]
         IN  BigDivSmallR(SubSeq(a, 1, Len(a) - 1), d, x % d) \o <<x \div d>>

\* floor(a / 2^k)
BigShr(a, k) ==
    IF Len(a) <= k \div LimbBits THEN <<>>
    ELSE BigTrim(BigDivSmallR(SubSeq(a, (k \div LimbBits) + 1, Len(a)),
                              Pow2(k % LimbBits), 0))

RECURSIVE IntBitLen(_)
IntBitLen(n) == IF n = 0 THEN 0 ELSE 1 + IntBitLen(n \div 2)

BigBitLen(a) ==
    IF a = <<>> THEN 0 ELSE LimbBits * (Len(a) - 1) + IntBitLen(a[Len(a)])

BigIsOdd(a) == a # <<>> /\ a[1] % 2 = 1

FZero == [sign |-> 1, m |-> <<>>, e |-> 0]

\* sign * r * 2^E for r of MantissaBits bits, or of one more with a zero
\* last bit
FPack(sign, r, E) ==
    IF BigBitLen(r) > MantissaBits
    THEN [sign |-> sign, m |-> BigShr(r, 1), e |-> E + 1]
    ELSE [sign |-> sign, m |-> r, e |-> E]

\* round to nearest, ties to even: q is the kept part, c compares the part
\* cut off with half a unit of q, `sticky` says more was cut off before
FRoundTie(sign, q, E, c, sticky) ==
    FPack(sign,
          IF c > 0 \/ (c = 0 /\ (sticky \/ BigIsOdd(q))) THEN BigAdd(q, <<1>>) ELSE q,
          E)

FRoundCut(sign, M, E, sticky, k, q) ==
    FRoundTie(sign, q, E + k,
              BigCmp(BigSub(M, BigShl(q, k)), BigShl(<<1>>, k - 1)), sticky)

FRoundBits(sign, M, E, sticky, k) ==
    IF k <= 0 THEN [sign |-> sign, m |-> BigShl(M, -k), e |-> E + k]
    ELSE FRoundCut(sign, M, E, sticky, k, BigShr(M, k))

\* The float nearest to sign * (M + r) * 2^E, where 0 < r < 1 if `sticky`
\* and r = 0 otherwise.
FRound(sign, M, E, sticky) ==
    IF M = <<>> THEN FZero
    ELSE FRoundBits(sign, M, E, sticky, BigBitLen(M) - MantissaBits)

FFromInt(n) == FRound(IF n < 0 THEN -1 ELSE 1, BigFromInt(IF n < 0 THEN -n ELSE n), 0, FALSE)

\* -a (a zero has no sign here: 0.0 and -0.0 compare equal)
FNeg(a) == IF a.m = <<>> THEN a ELSE [a EXCEPT !.sign = -a.sign]

FAbs(a) == [a EXCEPT !.sign = 1]

\* a * b
FMul(a, b) ==
    IF a.m = <<>> \/ b.m = <<>> THEN FZero
    ELSE FRound(a.sign * b.sign, BigMul(a.m, b.m), a.e + b.e, FALSE)

\* x * 2^E with sign sa plus y * 2^E with sign sb
FAddAligned(sa, x, sb, y, E, c) ==
    IF sa = sb THEN FRound(sa, BigAdd(x, y), E, FALSE)
    ELSE IF c = 0 THEN FZero
    ELSE IF c > 0 THEN FRound(sa, BigSub(x, y), E, FALSE)
    ELSE FRound(sb, BigSub(y, x), E, FALSE)

FAddShifted(sa, x, sb, y, E) == FAddAligned(sa, x, sb, y, E, BigCmp(x, y))

FAddAt(a, b, lo) ==
    FAddShifted(a.sign, BigShl(a.m, a.e - lo), b.sign, BigShl(b.m, b.e - lo), lo)

\* a + b
FAdd(a, b) ==
    IF a.m = <<>> THEN b
    ELSE IF b.m = <<>> THEN a
    ELSE FAddAt(a, b, IF a.e < b.e THEN a.e ELSE b.e)

\* The largest digit with d * digit <= rem, given an estimate not below it.
RECURSIVE DivFix(_, _, _)
DivFix(rem, d, est) ==
    IF BigCmp(BigMulSmall(d, est), rem) > 0 THEN DivFix(rem, d, est - 1) ELSE est

\* floor(rem / d) for rem < d * LimbBase and d with its top limb at least
\* LimbBase / 2: estimated from the top limbs, then corrected.
DivDigit(rem, d) ==
    LET n == Len(d)
        hi == IF Len(rem) > n THEN rem[n + 1] ELSE 0
        nx == IF Len(rem) >= n THEN rem[n] ELSE 0
        est == (hi * LimbBase + nx) \div d[n]
    IN  DivFix(rem, d, IF est >= LimbBase THEN LimbBase - 1 ELSE est)

RECURSIVE DivLimbs(_, _, _)

DivJoin(digit, rest) == [q |-> rest.q \o <<digit>>, sticky |-> rest.sticky]

DivRest(d, steps, digit, left) ==
    IF steps = 0 THEN [q |-> <<digit>>, sticky |-> left # <<>>]
    ELSE DivJoin(digit, DivLimbs(BigShiftLimb(left), d, steps - 1))

DivStep(rem, d, steps, digit) ==
    DivRest(d, steps, digit, BigSub(rem, BigMulSmall(d, digit)))

\* Long division, a limb at a time: the quotient of rem * LimbBase^steps by
\* d, and whether a remainder is left.
DivLimbs(rem, d, steps) == DivStep(rem, d, steps, DivDigit(rem, d))

FDivPack(sign, d, E) == FRound(sign, BigTrim(d.q), E, d.sticky)

\* a / b for b # 0
FDiv(a, b) ==
    IF a.m = <<>> THEN FZero
    ELSE FDivPack(a.sign * b.sign,
                  DivLimbs(BigMulSmall(a.m, Pow2(LimbBits * QuotientLimbs - MantissaBits)),
                           BigMulSmall(b.m, Pow2(LimbBits * QuotientLimbs - MantissaBits)),
                           QuotientLimbs),
                  a.e - b.e - LimbBits * QuotientLimbs)

\* -1, 0 or 1 as a < b, a = b or a > b
FCmp(a, b) ==
    LET mag == IF a.e # b.e THEN (IF a.e < b.e THEN -1 ELSE 1) ELSE BigCmp(a.m, b.m)
    IN  IF a.m = <<>> /\ b.m = <<>> THEN 0
        ELSE IF a.m = <<>> THEN -b.sign
        ELSE IF b.m = <<>> THEN a.sign
        ELSE IF a.sign # b.sign THEN a.sign
        ELSE a.sign * mag

FLt(a, b) == FCmp(a, b) < 0
FGt(a, b) == FCmp(a, b) > 0
FGe(a, b) == FCmp(a, b) >= 0
FEq(a, b) == FCmp(a, b) = 0

\* the float a decimal literal n/d denotes, e.g. Dec(7, 10) for 0.7
Dec(n, d) == FDiv(FFromInt(n), FFromInt(d))

----------------------------------------------------------------------------
(* signal_processor.py *)

\* A SignalData of the model carries its confidence in hundredths and its
\* strength and direction as integers; these are the floats they stand for.
Hundredths == [c \in 0..100 |-> Dec(c, 100)]
ConfidenceOf(signal) == Hundredths[signal.confidence]
StrengthOf(signal) == FFromInt(signal.strength)
DirectionOf(signal) == FFromInt(signal.direction)

\* confidence_threshold: float = 0.7 (in hundredths), strength_threshold:
\* float = 30.0
confidence_threshold == 70
strength_threshold == 30

_calculate_signal_weights ==
    [ORDER_FLOW    |-> Hundredths[20],
     BLOCKCHAIN_OI |-> Hundredths[15],
     MARKET_DEPTH  |-> Hundredths[20],
     SENTIMENT     |-> Hundredths[15],
     ON_CHAIN      |-> Hundredths[10],
     SCALP         |-> Hundredths[20]]

Abs(x) == IF x < 0 THEN -x ELSE x

\* acc = 0.0; for k in keys: acc += term[k]
RECURSIVE SumOver(_, _)
SumOver(keys, term) ==
    IF keys = <<>> THEN FZero
    ELSE FAdd(SumOver(SubSeq(keys, 1, Len(keys) - 1), term), term[keys[Len(keys)]])

NoDecision == [action |-> "None"]

\* every signal kept, whatever its age
AllKeys(keys, sigs, current_time) == keys

\* A dict of signals is a sequence of distinct names (the insertion order of
\* the dict) and a function from these names to SignalData.
\* for name, signal in signals.items(): keep the signals still valid
ValidKeys(keys, sigs, current_time) ==
    SelectSeq(keys, LAMBDA n :
        sigs[n].timestamp + INDICATORS[n].validity_period >= current_time)

\* The threshold test of process_signals:
\*   weighted_confidence < confidence_threshold or
\*   weighted_strength < strength_threshold
VetoBothBelow(weighted_confidence, weighted_strength) ==
    /\ FLt(weighted_confidence, Hundredths[confidence_threshold])
    /\ FLt(weighted_strength, FFromInt(strength_threshold))

ThresholdVeto(weighted_confidence, weighted_strength) ==
    \/ FLt(weighted_confidence, Hundredths[confidence_threshold])
    \/ FLt(weighted_strength, FFromInt(strength_threshold))

\* the literal 0.3 of the direction test
direction_threshold == Hundredths[30]

\* the direction test with >= and <= for > and <
DirectionInclusive(weighted_direction) ==
    IF FGe(weighted_direction, direction_threshold) THEN "BUY"
    ELSE IF FGe(FNeg(direction_threshold), weighted_direction) THEN "SELL"
    ELSE "HOLD"

\* the direction test of a processor that holds after a SELL decision
DirectionAfterSell(weighted_direction) ==
    IF last_decision.action = "SELL" THEN "HOLD"
    ELSE IF FGt(weighted_direction, direction_threshold) THEN "BUY"
    ELSE IF FLt(weighted_direction, FNeg(direction_threshold)) THEN "SELL"
    ELSE "HOLD"

\* if weighted_direction > 0.3 ... elif weighted_direction < -0.3 ... else
DirectionAction(weighted_direction) ==
    IF FGt(weighted_direction, direction_threshold) THEN "BUY"
    ELSE IF FLt(weighted_direction, FNeg(direction_threshold)) THEN "SELL"
    ELSE "HOLD"

\* process_signals from the threshold test on: the final action, the reason
\* and the TradingDecision
MakeDecision(valid, sigs, current_time, weighted_direction, weighted_strength, weighted_confidence) ==
    LET voted == DirectionAction(weighted_direction)
        veto == ThresholdVeto(weighted_confidence, weighted_strength)
        action == IF veto THEN "HOLD" ELSE voted
        positive_signals == SelectSeq(valid, LAMBDA n : sigs[n].direction > 0)
        negative_signals == SelectSeq(valid, LAMBDA n : sigs[n].direction < 0)
        reason == IF veto THEN [kind |-> "thresholds", names |-> <<>>]
                  ELSE IF action = "BUY" THEN [kind |-> "positive", names |-> positive_signals]
                  ELSE IF action = "SELL" THEN [kind |-> "negative", names |-> negative_signals]
                  ELSE [kind |-> "inconclusive", names |-> <<>>]
    IN  [timestamp  |-> current_time,
         action     |-> action,
         confidence |-> weighted_confidence,
         signals    |-> [i \in 1..Len(valid) |-> sigs[valid[i]]],
         reason     |-> reason,
         strength   |-> weighted_strength,
         weighted_direction |-> weighted_direction]

\* the weighted sums taken for the averages, without the division
SumsAsAverages(valid, sigs, current_time, direction_sum, strength_sum, conf_sum, total_weight) ==
    IF total_weight = FZero THEN NoDecision
    ELSE MakeDecision(valid, sigs, current_time, direction_sum, strength_sum,
                      conf_sum)

\* process_signals from `if total_weight == 0` on: the normalisation
Normalise(valid, sigs, current_time, direction_sum, strength_sum, conf_sum, total_weight) ==
    IF total_weight = FZero THEN NoDecision
    ELSE MakeDecision(valid, sigs, current_time,
                      FDiv(direction_sum, total_weight),
                      FDiv(strength_sum, total_weight),
                      FDiv(conf_sum, total_weight))

\* process_signals from `weights = self._calculate_signal_weights()` on: the
\* weighted sums over the valid signals that have a weight
WeightedSums(valid, sigs, current_time, weights, weighted) ==
    Normalise(valid, sigs, current_time,
              SumOver(weighted, [n \in DOMAIN sigs |->
                          FMul(DirectionOf(sigs[n]), weights[n])]),
              SumOver(weighted, [n \in DOMAIN sigs |->
                          FMul(FAbs(StrengthOf(sigs[n])), weights[n])]),
              SumOver(weighted, [n \in DOMAIN sigs |->
                          FMul(ConfidenceOf(sigs[n]), weights[n])]),
              SumOver(weighted, weights))

\* self.last_decision = decision, which a return of None skips
Remember(result) == IF result = NoDecision THEN last_decision ELSE result

process_signals(keys, sigs, current_time) ==
    LET valid == ValidKeys(keys, sigs, current_time)
        weights == _calculate_signal_weights
    IN  IF keys = <<>> THEN NoDecision
        ELSE IF valid = <<>> THEN NoDecision
        ELSE WeightedSums(valid, sigs, current_time, weights,
                          SelectSeq(valid, LAMBDA n : n \in DOMAIN weights))

----------------------------------------------------------------------------
(* main.py: TradingSystem.start *)

EmptyDict == <<>>

\* `signals`, the dict get_all_signals fills, is kept as the sequence of its
\* values in insertion order; its keys are the signals' names.
DictKeys(values) == [i \in 1..Len(values) |-> values[i].name]

DictMap(values) ==
    [n \in {values[i].name : i \in 1..Len(values)} |->
        values[CHOOSE i \in 1..Len(values) : values[i].name = n]]

\* start(): self.is_running = True; last_market_data_time = 0
Start ==
    /\ pc = "main"
    /\ is_running' = TRUE
    /\ last_market_data_time' = 0
    /\ pc' = "loop_test"
    /\ UNCHANGED <<genVars, sig_index, signals, decision, db_open,
                   iterations, pass_raised, market, focus, fuseVars, rpcVars,
                   signVars, raceVars,
                   txVars, probeVars>>

\* _handle_termination: SIGINT / SIGTERM arrive at any moment
HandleTermination ==
    /\ pc \notin {"main", "returned"}
    /\ is_running
    /\ is_running' = FALSE
    /\ UNCHANGED <<genVars, pc, sig_index, signals, decision, db_open,
                   iterations, pass_raised, last_market_data_time, market, focus,
                   fuseVars, rpcVars,
                   signVars, raceVars,
                   txVars, probeVars>>

\* start(): `while self.is_running`, the market snapshot every 300 s
\* (_store_market_data catches every exception), then get_all_signals begins.
LoopTest ==
    /\ pc = "loop_test"
    /\ IF is_running
       THEN /\ now + 5 <= MaxTime
            /\ pc' = "get_all_signals"
            /\ sig_index' = 1
            /\ signals' = EmptyDict
            /\ pass_raised' = {}
            /\ decision' = NoDecision
            /\ market' \in Markets
            /\ IF now - last_market_data_time >= 300
               THEN /\ \E dur \in Durations :
                         /\ now + dur <= MaxTime
                         /\ now' = now + dur
                    /\ last_market_data_time' = now
               ELSE UNCHANGED <<now, last_market_data_time>>
       ELSE /\ pc' = "finally"
            /\ UNCHANGED <<now, sig_index, signals, pass_raised, decision,
                           last_market_data_time, market>>
    /\ UNCHANGED <<last_update, signal_cache, next_oid, last_call, is_running,
                   db_open, iterations, focus, fuseVars, rpcVars,
                   signVars, raceVars,
                   txVars, probeVars>>

\* get_all_signals: the next generate_* call.  An exception leaves
\* get_all_signals; start() catches it outside its while loop.
GenerateNext ==
    /\ pc = "get_all_signals"
    /\ sig_index <= Len(SignalOrder)
    /\ LET name == SignalOrder[sig_index] IN
          /\ Generate(name, {0})
          /\ IF last_call'.outcome = "raised"
             THEN /\ pass_raised' = pass_raised \cup {name}
                  /\ pc' = "finally"
                  /\ UNCHANGED <<sig_index, signals>>
             ELSE /\ signals' = Append(signals, last_call'.result)
                  /\ sig_index' = sig_index + 1
                  /\ UNCHANGED <<pc, pass_raised>>
    /\ UNCHANGED <<is_running, decision, db_open, iterations,
                   last_market_data_time, market, focus, fuseVars, rpcVars,
                   signVars, raceVars,
                   txVars, probeVars>>

\* get_all_signals has returned and the rest of the iteration is to run
FuseDue == pc = "get_all_signals" /\ sig_index > Len(SignalOrder)

\* start(): get_all_signals has returned; every signal is logged and stored,
\* process_signals fuses them, the decision is logged and stored, and the
\* loop sleeps 5 s.
FuseAndSleep ==
    /\ FuseDue
    /\ decision' = process_signals(DictKeys(signals), DictMap(signals), now)
    /\ last_decision' = Remember(decision')
    /\ now' = now + 5
    /\ iterations' = iterations + 1
    /\ pc' = "loop_test"
    /\ UNCHANGED <<last_update, signal_cache, next_oid, last_call, is_running,
                   sig_index, signals, db_open, pass_raised,
                   last_market_data_time, market, focus, fuse_in, fuse_out,
                   rpcVars,
                   signVars, raceVars,
                   txVars, probeVars>>

\* start() returning with the connection left as it is
ReturnWithoutClose ==
    /\ pc = "finally"
    /\ pc' = "returned"
    /\ UNCHANGED <<genVars, is_running, sig_index, signals, decision, db_open,
                   iterations, pass_raised, last_market_data_time, market, focus,
                   fuseVars, rpcVars,
                   signVars, raceVars,
                   txVars, probeVars>>

\* start(): except Exception (logs) and finally: self.database.close()
Finally ==
    /\ pc = "finally"
    /\ db_open' = FALSE
    /\ pc' = "returned"
    /\ UNCHANGED <<genVars, is_running, sig_index, signals, decision,
                   iterations, pass_raised, last_market_data_time, market, focus,
                   fuseVars, rpcVars,
                   signVars, raceVars,
                   txVars, probeVars>>

\* SignalGenerator after construction
GeneratorInit ==
    /\ now = StartTime
    /\ last_update = EmptyDict
    /\ signal_cache = EmptyDict
    /\ next_oid = 1
    /\ last_call = NoCall

NoFuse == [keys |-> <<>>, sigs |-> <<>>, time |-> 0]

\* no process_signals call is being observed
FuseIdle ==
    /\ fuse_in = NoFuse
    /\ fuse_out = NoDecision
    /\ last_decision = NoDecision

NoOutcome == [kind |-> "pending"]

\* no _make_request call has been made
RpcIdle ==
    /\ rpc_pc = "idle"
    /\ retry_count = 0
    /\ current_endpoint_index = 0
    /\ n_requests = 0
    /\ seen = {}
    /\ last_error = "none"
    /\ slept = <<>>
    /\ delays = <<>>
    /\ rpc_outcome = NoOutcome

NoRequest == [signed |-> FALSE, params |-> <<>>, signed_string |-> <<>>, time |-> 0]

\* no BinanceClient._request call has been made
\* BinanceClient.__init__: self.base_url = "https://api.binance.com"
spot_base_url == "https://api.binance.com"

\* a BinanceClient after construction, with no caller
UrlIdle ==
    /\ base_url = spot_base_url
    /\ callers = <<>>
    /\ issued = <<>>

SignIdle ==
    /\ clock_ms = 0
    /\ mappings = <<>>
    /\ request = NoRequest
    /\ sign_count = 0
    /\ UrlIdle

\* no concurrent callers of SignalGenerator
RaceIdle == thread_pc = <<>>

NoTx ==
    [pc |-> "idle", limit |-> 0, found |-> 0, i |-> 0, left |-> 0,
     events |-> <<>>, processed |-> 0, transactions |-> 0, failed |-> FALSE]

\* no get_transactions call has been made
TxIdle == tx = NoTx

NoProbe == [fn |-> "none", name |-> "none", time |-> 0, result |-> FALSE]

\* no method of SignalGenerator is being observed
ProbeIdle == probe = NoProbe

\* TradingSystem after construction
LoopInit ==
    /\ is_running = FALSE
    /\ sig_index = 1
    /\ signals = EmptyDict
    /\ decision = NoDecision
    /\ db_open = TRUE
    /\ iterations = 0
    /\ pass_raised = {}
    /\ last_market_data_time = 0

Init ==
    /\ GeneratorInit
    /\ LoopInit
    /\ FuseIdle
    /\ RpcIdle
    /\ TxIdle
    /\ ProbeIdle
    /\ SignIdle
    /\ RaceIdle
    /\ pc = "main"
    /\ market = "flat"
    /\ focus = "none"

Next ==
    \/ Start
    \/ HandleTermination
    \/ LoopTest
    \/ GenerateNext
    \/ FuseAndSleep
    \/ Finally

Spec == Init /\ [][Next]_vars

\* The interpreter keeps executing start(): every step of it that can be
\* taken is taken in the end.  A generate_* call ends because its HTTP
\* requests carry timeouts, and time.sleep(5) ends.  Nothing is assumed about
\* the arrival of SIGINT or SIGTERM.  The last conjunct is the weak fairness
\* of FuseAndSleep, which is enabled exactly when FuseDue holds and ends it.
SpecLive ==
    /\ Spec
    /\ WF_vars(LoopTest)
    /\ WF_vars(GenerateNext)
    /\ WF_vars(Finally)
    /\ []<>~FuseDue

----------------------------------------------------------------------------
(* A client of SignalGenerator that calls one generate_* function at the   *)
(* times it likes.                                                         *)

\* the client calls the generate_* function of its signal name
CallGenerate ==
    /\ Generate(focus, ClockGaps)
    /\ UNCHANGED <<loopVars, clientVars, fuseVars, rpcVars,
                   signVars, raceVars,
                   txVars, probeVars>>

\* time passes between two calls
Tick ==
    /\ \E d \in TickSteps :
          /\ now + d <= MaxTime
          /\ now' = now + d
    /\ UNCHANGED <<last_update, signal_cache, next_oid, last_call, loopVars,
                   clientVars, fuseVars, rpcVars,
                   signVars, raceVars,
                   txVars, probeVars>>

\* the market changes between two calls
MarketMoves ==
    /\ market' \in Markets \ {market}
    /\ UNCHANGED <<genVars, pc, is_running, sig_index, signals, decision,
                   db_open, iterations, pass_raised, last_market_data_time,
                   clientVars, fuseVars, rpcVars,
                   signVars, raceVars,
                   txVars, probeVars>>

CacheInit ==
    /\ GeneratorInit
    /\ LoopInit
    /\ FuseIdle
    /\ RpcIdle
    /\ TxIdle
    /\ ProbeIdle
    /\ SignIdle
    /\ RaceIdle
    /\ pc = "client"
    /\ market \in Markets
    /\ focus \in Names

CacheNext ==
    \/ CallGenerate
    \/ Tick
    \/ MarketMoves

SpecCache == CacheInit /\ [][CacheNext]_vars

----------------------------------------------------------------------------
(* main.py: TradingSystem.start with its market snapshot.  The rest of an  *)
(* iteration, from get_all_signals to the sleep, is one step here.         *)

\* how long the polling loop is followed, in seconds
MaxSnapshotElapsed == 700
\* the market snapshot interval of start(), in seconds
snapshot_interval == 300
\* the sleep at the end of an iteration, in seconds
loop_sleep == 5

\* a snapshot in every iteration
SnapshotAlways(current_time, last) == TRUE

\* if current_time - last_market_data_time >= 300
SnapshotDue(current_time, last) == current_time - last >= snapshot_interval

\* self._store_market_data() has been attempted `attempts` times, `failures`
\* of them caught an exception; the last attempt was in the iteration that
\* began at `time`
Snapshot(time, ok) ==
    [fn |-> "_store_market_data", name |-> "none", time |-> time, result |-> ok,
     attempts |-> IF probe.fn = "none" THEN 1 ELSE probe.attempts + 1,
     failures |-> (IF probe.fn = "none" THEN 0 ELSE probe.failures)
                      + (IF ok THEN 0 ELSE 1)]

\* start(): `while self.is_running`, current_time = int(time.time()), and
\* the market snapshot when it is due; _store_market_data returns normally
\* whether it stored the data or caught an exception.
SnapshotTest ==
    /\ pc = "loop_test"
    /\ IF is_running
       THEN /\ pc' = "rest"
            /\ IF SnapshotDue(now, last_market_data_time)
               THEN \E ok \in BOOLEAN, dur \in Durations :
                       /\ now + dur <= StartTime + MaxSnapshotElapsed
                       /\ probe' = Snapshot(now, ok)
                       /\ last_market_data_time' = now
                       /\ now' = now + dur
               ELSE UNCHANGED <<now, last_market_data_time, probe>>
       ELSE /\ pc' = "finally"
            /\ UNCHANGED <<now, last_market_data_time, probe>>
    /\ UNCHANGED <<last_update, signal_cache, next_oid, last_call, is_running,
                   sig_index, signals, decision, db_open, iterations,
                   pass_raised, market, focus, fuseVars, rpcVars, signVars,
                   raceVars, txVars>>

\* start(): get_all_signals, the logging and storing, process_signals and
\* time.sleep(5); an exception in them leaves the loop.
RestOfIteration ==
    /\ pc = "rest"
    /\ \/ \E dur \in Durations :
             /\ now + dur + loop_sleep <= StartTime + MaxSnapshotElapsed
             /\ now' = now + dur + loop_sleep
             /\ iterations' = iterations + 1
             /\ pc' = "loop_test"
       \/ /\ pc' = "finally"
          /\ UNCHANGED <<now, iterations>>
    /\ UNCHANGED <<last_update, signal_cache, next_oid, last_call, is_running,
                   sig_index, signals, decision, db_open, pass_raised,
                   last_market_data_time, market, focus, fuseVars, rpcVars,
                   signVars, raceVars, txVars, probeVars>>

SnapshotNext ==
    \/ Start
    \/ HandleTermination
    \/ SnapshotTest
    \/ RestOfIteration
    \/ Finally

SpecSnapshot == Init /\ [][SnapshotNext]_vars

----------------------------------------------------------------------------
(* A client that asks _should_update_signal about its signal name, on a    *)
(* machine whose clock int(time.time()) starts anywhere from 0.            *)

\* the clock when the SignalGenerator is constructed
DueClocks == {0, 30, 59, 60, 120, 180}
\* the clock steps between two calls
DueSteps == {30, 60}
\* the clock value the client runs until
DueHorizon == 240

\* due = self._should_update_signal(name)
ShouldUpdateProbe ==
    /\ pc = "due"
    /\ probe' = [fn |-> "_should_update_signal", name |-> focus, time |-> now,
                 result |-> _should_update_signal(focus, now)]
    /\ UNCHANGED <<genVars, loopVars, clientVars, fuseVars, rpcVars, signVars,
                   raceVars, txVars>>

\* the client calls the generate_* function of its signal name
DueGenerate ==
    /\ pc = "due"
    /\ Generate(focus, {0})
    /\ UNCHANGED <<loopVars, clientVars, fuseVars, rpcVars, signVars, raceVars,
                   txVars, probeVars>>

\* time passes between two calls
DueTick ==
    /\ pc = "due"
    /\ \E d \in DueSteps :
          /\ now + d <= DueHorizon
          /\ now' = now + d
    /\ UNCHANGED <<last_update, signal_cache, next_oid, last_call, loopVars,
                   clientVars, fuseVars, rpcVars, signVars, raceVars, txVars,
                   probeVars>>

DueInit ==
    /\ now \in DueClocks
    /\ last_update = EmptyDict
    /\ signal_cache = EmptyDict
    /\ next_oid = 1
    /\ last_call = NoCall
    /\ LoopInit
    /\ FuseIdle
    /\ RpcIdle
    /\ TxIdle
    /\ ProbeIdle
    /\ SignIdle
    /\ RaceIdle
    /\ pc = "due"
    /\ market = "flat"
    /\ focus \in Names

DueNext ==
    \/ ShouldUpdateProbe
    \/ DueGenerate
    \/ DueTick

SpecDue == DueInit /\ [][DueNext]_vars

----------------------------------------------------------------------------
(* A caller of SignalProcessor.process_signals with signals of its own.    *)

\* the most signals of any kind a caller passes to process_signals
MaxFused == 2
\* the clock when process_signals runs
FuseTime == 2000

\* A signal of `name` as a caller may pass it: `age` is 0 for a signal at the
\* last second of its validity window and 1 for one a second too old.
InputSignal(name, c) ==
    [name       |-> name,
     timestamp  |-> FuseTime - INDICATORS[name].validity_period - c.age,
     strength   |-> c.strength,
     direction  |-> c.direction,
     confidence |-> c.confidence,
     validity   |-> INDICATORS[name].validity_period,
     oid        |-> 0]

\* fresh, strong signals of every direction
StrongChoices ==
    {[age |-> 0, direction |-> 1,  strength |-> 80,  confidence |-> 90],
     [age |-> 0, direction |-> -1, strength |-> -80, confidence |-> 90],
     [age |-> 0, direction |-> 0,  strength |-> 80,  confidence |-> 90]}

\* these, a signal at the default confidence 0.7, a weak one, an expired one
InputChoices ==
    StrongChoices \cup
    {[age |-> 0, direction |-> 1,  strength |-> 80,  confidence |-> 70],
     [age |-> 0, direction |-> 1,  strength |-> 20,  confidence |-> 50],
     [age |-> 1, direction |-> 1,  strength |-> 80,  confidence |-> 90]}

\* the names of S in the order get_all_signals inserts them
KeysOf(S) == SelectSeq(SignalOrder, LAMBDA n : n \in S)

FuseInput(S, c) ==
    [keys |-> KeysOf(S),
     sigs |-> [n \in S |-> InputSignal(n, c[n])],
     time |-> FuseTime]

\* what the caller passes in the call it makes between two calls on fuse_in
OtherInput ==
    FuseInput({"SCALP"}, [n \in {"SCALP"} |->
        [age |-> 0, direction |-> -1, strength |-> -80, confidence |-> 90]])

\* The caller passes up to MaxFused signals of any kind, or a signal of
\* every name, each fresh and strong, as get_all_signals returns them.
FuseInit ==
    /\ GeneratorInit
    /\ LoopInit
    /\ RpcIdle
    /\ TxIdle
    /\ ProbeIdle
    /\ SignIdle
    /\ RaceIdle
    /\ pc = "caller"
    /\ market = "flat"
    /\ focus = "none"
    /\ fuse_out = NoDecision
    /\ last_decision = NoDecision
    /\ \/ \E S \in SUBSET Names :
             /\ Cardinality(S) <= MaxFused
             /\ \E c \in [S -> InputChoices] : fuse_in = FuseInput(S, c)
       \/ \E c \in [Names -> StrongChoices] : fuse_in = FuseInput(Names, c)

\* decision = processor.process_signals(signals)
Fuse ==
    /\ pc = "caller"
    /\ fuse_out' = process_signals(fuse_in.keys, fuse_in.sigs, fuse_in.time)
    /\ last_decision' = Remember(fuse_out')
    /\ pc' = "fused"
    /\ UNCHANGED <<genVars, is_running, sig_index, signals, decision, db_open,
                   iterations, pass_raised, last_market_data_time, market,
                   clientVars, fuse_in, rpcVars,
                   signVars, raceVars,
                   txVars, probeVars>>

\* processor.process_signals(other): a call on other signals, whose result
\* the caller drops
FuseOther ==
    /\ pc = "fused"
    /\ last_decision' = Remember(process_signals(OtherInput.keys, OtherInput.sigs,
                                                 OtherInput.time))
    /\ pc' = "other"
    /\ UNCHANGED <<genVars, is_running, sig_index, signals, decision, db_open,
                   iterations, pass_raised, last_market_data_time, market,
                   clientVars, fuse_in, fuse_out, rpcVars,
                   signVars, raceVars,
                   txVars, probeVars>>

\* decision = processor.process_signals(signals), on the same signals and at
\* the same clock as the first call
FuseAgain ==
    /\ pc \in {"fused", "other"}
    /\ fuse_out' = process_signals(fuse_in.keys, fuse_in.sigs, fuse_in.time)
    /\ last_decision' = Remember(fuse_out')
    /\ pc' = "again"
    /\ UNCHANGED <<genVars, is_running, sig_index, signals, decision, db_open,
                   iterations, pass_raised, last_market_data_time, market,
                   clientVars, fuse_in, rpcVars,
                   signVars, raceVars,
                   txVars, probeVars>>

FuseNext ==
    \/ Fuse
    \/ FuseOther
    \/ FuseAgain

SpecFuse == FuseInit /\ [][FuseNext]_vars

----------------------------------------------------------------------------
(* solana_client.py: SolanaClient._make_request *)

max_retries == 3
base_delay == 2

\* endpoints = [self.rpc_url] + self.fallback_endpoints
endpoints ==
    <<"rpc_url", "solana-api.projectserum.com",
      "solana-mainnet.g.alchemy.com", "rpc.ankr.com">>

\* the model stops a call after this many requests
MaxRequests == 18
\* the number of sleeps `delays` records
MaxDelaysLogged == 4
\* the Retry-After values (seconds) a 429 response may carry
RetryAfterValues == {7}

\* What requests.post / the response can be:
\*   transport       requests.post raises a RequestException
\*   http5xx         a status raise_for_status() turns into HTTPError
\*   http429         status 429 without a Retry-After header
\*   http429_after   status 429 with a Retry-After header
\*   ratelimit_body  status 200, "error" mentions "rate limit" / "too many"
\*   rpc_error       status 200, any other "error"
\*   ok              status 200 with a "result"
ResponseKinds ==
    {"transport", "http5xx", "http429", "http429_after", "ratelimit_body",
     "rpc_error", "ok"}

\* delay = base_delay * (2 ** (retry_count - 1)), slept before a request
\* when retry_count > 0
BackoffSleeps(retries) ==
    IF retries > 0 THEN <<base_delay * Pow2(retries - 1)>> ELSE <<>>

WrappedEveryFailure(index) == TRUE

\* an index that passes over the next endpoint
SkipIndex(index) == index + 2

\* current_endpoint_index += 1
NextIndex(index) == index + 1

\* retries that count as used up before any was made
ExhaustedAtOnce(retries) == TRUE

\* if retry_count > max_retries: raise
Exhausted(retries) == retries > max_retries

\* current_endpoint_index % len(endpoints) == 0
Wrapped(index) == index % Len(endpoints) = 0

\* `delays` keeps the first MaxDelaysLogged sleeps
LogDelays(log, more) ==
    LET all == log \o more
    IN  IF Len(all) <= MaxDelaysLogged THEN all ELSE SubSeq(all, 1, MaxDelaysLogged)

\* def _make_request: the locals before the loop
RpcCall ==
    /\ rpc_pc = "idle"
    /\ rpc_pc' = "loop"
    /\ retry_count' = 0
    /\ current_endpoint_index' = 0
    /\ UNCHANGED <<n_requests, seen, last_error, slept, delays, rpc_outcome>>
    /\ UNCHANGED <<genVars, loopVars, clientVars, fuseVars, signVars, raceVars,
                   txVars, probeVars>>

\* One iteration of `while retry_count <= max_retries`: the backoff sleep,
\* the request to endpoints[current_endpoint_index % len(endpoints)], the
\* handling of its response, and the loop test that follows a `continue`.
RpcRequest ==
    /\ rpc_pc = "loop"
    /\ retry_count <= max_retries
    /\ n_requests < MaxRequests
    /\ n_requests' = n_requests + 1
    /\ \E resp \in ResponseKinds, retry_after \in RetryAfterValues :
        LET backoff == BackoffSleeps(retry_count)
            next_index == NextIndex(current_endpoint_index)
            next_retry == IF Wrapped(next_index) THEN retry_count + 1 ELSE retry_count
        IN
        /\ seen' = seen \cup {resp}
        /\ CASE resp \in {"http429", "http429_after"} ->
                  \* retry_delay = int(response.headers.get("Retry-After", 2))
                  LET retry_delay == IF resp = "http429_after" THEN retry_after ELSE 2
                  IN  /\ current_endpoint_index' = next_index
                      /\ retry_count' = next_retry
                      /\ last_error' = resp
                      /\ slept' = backoff \o <<retry_delay>>
                      /\ IF next_retry <= max_retries
                         THEN /\ rpc_pc' = "loop"
                              /\ rpc_outcome' = rpc_outcome
                         ELSE \* the while loop ends; the function returns None
                              /\ rpc_pc' = "done"
                              /\ rpc_outcome' = [kind |-> "returned_none"]
             [] resp \in {"transport", "http5xx"} ->
                  \* except requests.exceptions.RequestException as e
                  /\ current_endpoint_index' = next_index
                  /\ retry_count' = next_retry
                  /\ last_error' = resp
                  /\ slept' = backoff
                  /\ IF Exhausted(next_retry)
                     THEN /\ rpc_pc' = "done"
                          /\ rpc_outcome' = [kind |-> "raised", error |-> resp]
                     ELSE /\ rpc_pc' = "loop"
                          /\ rpc_outcome' = rpc_outcome
             [] resp = "ratelimit_body" ->
                  /\ current_endpoint_index' = next_index
                  /\ retry_count' = retry_count
                  /\ last_error' = resp
                  /\ slept' = backoff
                  /\ rpc_pc' = "loop"
                  /\ rpc_outcome' = rpc_outcome
             [] resp = "rpc_error" ->
                  \* raise Exception(...): not a RequestException
                  /\ last_error' = resp
                  /\ slept' = backoff
                  /\ rpc_pc' = "done"
                  /\ rpc_outcome' = [kind |-> "raised", error |-> resp]
                  /\ UNCHANGED <<current_endpoint_index, retry_count>>
             [] resp = "ok" ->
                  \* return result["result"]
                  /\ slept' = backoff
                  /\ rpc_pc' = "done"
                  /\ rpc_outcome' = [kind |-> "result",
                                     endpoint |-> current_endpoint_index % Len(endpoints)]
                  /\ UNCHANGED <<current_endpoint_index, retry_count, last_error>>
        /\ delays' = LogDelays(delays, slept')
    /\ UNCHANGED <<genVars, loopVars, clientVars, fuseVars, signVars, raceVars,
                   txVars, probeVars>>

RpcInit ==
    /\ GeneratorInit
    /\ LoopInit
    /\ FuseIdle
    /\ RpcIdle
    /\ TxIdle
    /\ ProbeIdle
    /\ SignIdle
    /\ RaceIdle
    /\ pc = "rpc"
    /\ market = "flat"
    /\ focus = "none"

RpcNext ==
    \/ RpcCall
    \/ RpcRequest

SpecRpc == RpcInit /\ [][RpcNext]_vars

----------------------------------------------------------------------------
(* signal_generator.py: what generate_onchain_signal and                   *)
(* generate_order_flow_signal compute from the data of their indicators.   *)

FMin(a, b) == IF FLt(b, a) THEN b ELSE a

\* round(v) for a float v with |v| < 1.5: to the nearest integer, a tie to
\* the even one, so that round(0.5) = round(-0.5) = 0
round(v) ==
    IF FGt(v, Dec(1, 2)) THEN 1
    ELSE IF FLt(v, FNeg(Dec(1, 2))) THEN -1
    ELSE 0

Tenths == [t \in 0..10 |-> Dec(t, 10)]

\* 1 if x > 0 else -1 if x < 0 else 0
Sign(x) == IF x > 0 THEN 1 ELSE IF x < 0 THEN -1 ELSE 0

\* abs(x) / scale, not capped
Unclamped(x, scale) == FDiv(FFromInt(Abs(x)), FFromInt(scale))

\* min(abs(x) / scale, 1.0)
Normalised(x, scale) == FMin(FDiv(FFromInt(Abs(x)), FFromInt(scale)), FFromInt(1))

\* 1 if value > baseline else -1 if value < baseline * 0.7 else 0
BaselineDirection(value, baseline) ==
    IF value > baseline THEN 1
    ELSE IF FLt(FFromInt(value), FMul(FFromInt(baseline), Tenths[7])) THEN -1
    ELSE 0

\* round(w1 * d1 + w2 * d2 + w3 * d3) and the if / elif / else after it
FinalDirection(w1, d1, w2, d2, w3, d3) ==
    Sign(round(FAdd(FAdd(FMul(Tenths[w1], FFromInt(d1)),
                         FMul(Tenths[w2], FFromInt(d2))),
                    FMul(Tenths[w3], FFromInt(d3)))))

\* (w1 * s1 + w2 * s2 + w3 * s3) * 100
FinalStrength(w1, s1, w2, s2, w3, s3) ==
    FMul(FAdd(FAdd(FMul(Tenths[w1], s1), FMul(Tenths[w2], s2)),
              FMul(Tenths[w3], s3)),
         FFromInt(100))

\* SignalData(...) with strength = signal_strength, without the direction
UnsignedSignal(name, timestamp, direction, signal_strength, confidence, components, oid) ==
    [name       |-> name,
     timestamp  |-> timestamp,
     strength   |-> signal_strength,
     direction  |-> direction,
     confidence |-> confidence,
     validity   |-> INDICATORS[name].validity_period,
     components |-> components,
     oid        |-> oid]

\* SignalData(...) with the strength as the float the code computes:
\* strength = signal_strength * direction; `components` keeps the data read
ComputedSignal(name, timestamp, direction, signal_strength, confidence, components, oid) ==
    [name       |-> name,
     timestamp  |-> timestamp,
     strength   |-> FMul(signal_strength, FFromInt(direction)),
     direction  |-> direction,
     confidence |-> confidence,
     validity   |-> INDICATORS[name].validity_period,
     components |-> components,
     oid        |-> oid]

\* OnChainData as get_onchain_metrics returns it when a client call raised
ZeroedOnChainData ==
    [transactions_count |-> 0, tps |-> 0, active_addresses |-> 0, failed |-> TRUE]

\* OnChainData read from the chain (tps in whole transactions per second)
OnChainReadings ==
    [transactions_count : {0, 25, 35, 50, 75, 200},
     tps : {0, 600, 700, 1000, 1500, 3000},
     active_addresses : {0, 700, 1000, 1500, 5000},
     failed : {FALSE}]

\* generate_onchain_signal from `onchain_data` on
OnChainSignal(onchain_data, timestamp, oid) ==
    LET tps_direction == BaselineDirection(onchain_data.tps, 1000)
        tps_strength == Normalised(onchain_data.tps - 1000, 1000)
        tx_direction == BaselineDirection(onchain_data.transactions_count, 50)
        tx_strength == Normalised(onchain_data.transactions_count - 50, 50)
        addr_direction == BaselineDirection(onchain_data.active_addresses, 1000)
        addr_strength == Normalised(onchain_data.active_addresses - 1000, 1000)
    IN  ComputedSignal("ON_CHAIN", timestamp,
            FinalDirection(3, tx_direction, 4, tps_direction, 3, addr_direction),
            FinalStrength(3, tx_strength, 4, tps_strength, 3, addr_strength),
            IF tx_direction = tps_direction /\ tps_direction = addr_direction
                   /\ tx_direction # 0
            THEN 90 ELSE 70,
            onchain_data, oid)

\* what calculate_delta, calculate_footprint and track_whale_transfers
\* return: delta, the sum of delta_by_level, and the whale transfers with
\* their total, CEX and DEX values in dollars
OrderFlowReadings ==
    [delta : {-150, -50, 0, 30, 150},
     net_delta : {-300, -100, 0, 200},
     whale : {[transfers |-> 0, total_value |-> 0, cex_value |-> 0, dex_value |-> 0],
              [transfers |-> 2, total_value |-> 0, cex_value |-> 0, dex_value |-> 0],
              [transfers |-> 2, total_value |-> 50000, cex_value |-> 40000, dex_value |-> 10000],
              [transfers |-> 3, total_value |-> 100000, cex_value |-> 50000, dex_value |-> 50000],
              [transfers |-> 1, total_value |-> 200000, cex_value |-> 0, dex_value |-> 200000],
              [transfers |-> 4, total_value |-> 300000, cex_value |-> 100000, dex_value |-> 20000]}]

\* the whale part of generate_order_flow_signal: direction and strength
WhaleFlow(whale_data) ==
    IF whale_data.transfers > 0
           /\ (whale_data.cex_value > 0 \/ whale_data.dex_value > 0)
    THEN LET net_flow == whale_data.dex_value - whale_data.cex_value
             share == FMin(IF whale_data.total_value > 0
                           THEN FDiv(FFromInt(Abs(net_flow)),
                                     FFromInt(whale_data.total_value))
                           ELSE FZero,
                           FFromInt(1))
         IN  [direction |-> Sign(net_flow),
              strength |-> FMin(FMul(share, FDiv(FFromInt(whale_data.total_value),
                                                 FFromInt(100000))),
                                FFromInt(1))]
    ELSE [direction |-> 0, strength |-> FZero]

\* generate_order_flow_signal from `delta = delta_data.delta` on
OrderFlowSignal(data, timestamp, oid) ==
    LET delta_direction == Sign(data.delta)
        delta_strength == Normalised(data.delta, 100)
        footprint_direction == Sign(data.net_delta)
        footprint_strength == Normalised(data.net_delta, 200)
        whale == WhaleFlow(data.whale)
    IN  ComputedSignal("ORDER_FLOW", timestamp,
            FinalDirection(4, delta_direction, 3, footprint_direction,
                           3, whale.direction),
            FinalStrength(4, delta_strength, 3, footprint_strength,
                          3, whale.strength),
            IF delta_direction = footprint_direction
                   /\ footprint_direction = whale.direction /\ delta_direction # 0
            THEN 90 ELSE 70,
            data, oid)

\* what get_long_short_ratio, get_funding_rate and calculate_footprint
\* return: the long/short ratio in hundredths, the funding rate in
\* hundred-thousandths, and the sum of delta_by_level
SentimentReadings ==
    [ratio : {0, 50, 80, 100, 150, 400},
     funding_rate : {-2000, -10, 0, 10, 500},
     net_delta : {-300, -100, 0, 200}]

\* the long/short part of generate_sentiment_signal: direction and strength
LongShort(ratio) ==
    IF FEq(ratio, FFromInt(1)) THEN [direction |-> 0, strength |-> FZero]
    ELSE IF FGt(ratio, FFromInt(1))
    THEN [direction |-> -1,
          strength |-> FMin(FDiv(FAdd(ratio, FNeg(FFromInt(1))), FFromInt(2)),
                            FFromInt(1))]
    ELSE [direction |-> 1,
          strength |-> FMin(FDiv(FAdd(FFromInt(1), FNeg(ratio)), Tenths[5]),
                            FFromInt(1))]

\* generate_sentiment_signal from `ls_direction = 0` on
SentimentSignal(data, timestamp, oid) ==
    LET ls == LongShort(Dec(data.ratio, 100))
        funding_rate == Dec(data.funding_rate, 100000)
        funding_direction == -Sign(data.funding_rate)
        funding_strength == FMin(FMul(FAbs(funding_rate), FFromInt(100)), FFromInt(1))
        footprint_direction == Sign(data.net_delta)
        footprint_strength == Normalised(data.net_delta, 200)
    IN  ComputedSignal("SENTIMENT", timestamp,
            FinalDirection(4, ls.direction, 3, funding_direction,
                           3, footprint_direction),
            FinalStrength(4, ls.strength, 3, funding_strength,
                          3, footprint_strength),
            IF ls.direction = funding_direction /\ funding_direction # 0
            THEN (IF funding_direction = footprint_direction THEN 95 ELSE 85)
            ELSE 70,
            data, oid)

\* generate_*: the signal computed from the data read is stored in
\* signal_cache and last_update is set; a call on a fresh cache returns the
\* cached signal.
GenerateFrom(name, signal_of_data, readings) ==
    /\ pc = "indicators"
    /\ focus = name
    /\ \/ GenerateCached(name)
       \/ /\ CacheMiss(name)
          /\ \E data \in readings :
                LET signal == signal_of_data[data] IN
                /\ signal_cache' = DictPut(signal_cache, name, signal)
                /\ last_update' = DictPut(last_update, name, now)
                /\ next_oid' = next_oid + 1
                /\ last_call' = [name |-> name, outcome |-> "computed",
                                 result |-> signal,
                                 indicator_calls |-> Len(IndicatorCalls[name]),
                                 failed_call |-> 0]
                /\ UNCHANGED now
    /\ UNCHANGED <<loopVars, clientVars, fuseVars, rpcVars, signVars, raceVars,
                   txVars, probeVars>>

generate_onchain_signal ==
    GenerateFrom("ON_CHAIN",
                 [data \in OnChainReadings \cup {ZeroedOnChainData} |->
                     OnChainSignal(data, now, next_oid)],
                 OnChainReadings \cup {ZeroedOnChainData})

generate_order_flow_signal ==
    GenerateFrom("ORDER_FLOW",
                 [data \in OrderFlowReadings |-> OrderFlowSignal(data, now, next_oid)],
                 OrderFlowReadings)

generate_sentiment_signal ==
    GenerateFrom("SENTIMENT",
                 [data \in SentimentReadings |-> SentimentSignal(data, now, next_oid)],
                 SentimentReadings)

IndicatorsInit ==
    /\ GeneratorInit
    /\ LoopInit
    /\ FuseIdle
    /\ RpcIdle
    /\ TxIdle
    /\ ProbeIdle
    /\ SignIdle
    /\ RaceIdle
    /\ pc = "indicators"
    /\ market = "flat"
    /\ focus \in {"ON_CHAIN", "ORDER_FLOW", "SENTIMENT"}

IndicatorsNext ==
    \/ generate_onchain_signal
    \/ generate_order_flow_signal
    \/ generate_sentiment_signal

SpecIndicators == IndicatorsInit /\ [][IndicatorsNext]_vars

----------------------------------------------------------------------------
(* solana_client.py: SolanaClient.get_transactions.  Its _make_request     *)
(* calls are taken by their outcome: a result, None, or an exception.      *)

\* "limit": min(limit, 25)
signature_limit == 25
\* batch_size = 5
batch_size == 5
\* time.sleep(0.2) and time.sleep(1), in milliseconds
item_delay == 200
batch_delay == 1000

\* the values of `limit` callers pass (the default is 100)
Limits == {3, 7, 25, 100}
\* how a _make_request call of get_transactions can end
RequestOutcomes == {"result", "none", "raised"}

Min(a, b) == IF a <= b THEN a ELSE b

\* the mark of a getTransaction request in tx.events, where the other
\* entries are the delays slept, in milliseconds
RequestMark == 0

\* a delay before every batch, the first one too
BatchDelayAlways(i) == TRUE

\* if i > 0: time.sleep(1)
BatchDelayDue(i) == i > 0

\* get_transactions: the getSignaturesForAddress request.  The node answers
\* with at most the number of signatures asked for.
TxCall ==
    /\ pc = "solana"
    /\ tx.pc = "idle"
    /\ \E limit \in Limits, outcome \in RequestOutcomes,
          found \in 0..signature_limit :
          /\ found <= Min(limit, signature_limit)
          /\ outcome = "result" <=> found > 0
          /\ tx' = [pc |-> IF outcome = "raised" THEN "raised"
                           ELSE IF found = 0 THEN "returned" ELSE "batch",
                    limit |-> limit,
                    found |-> found,
                    i |-> 0,
                    left |-> 0,
                    events |-> <<>>,
                    processed |-> 0,
                    transactions |-> 0,
                    failed |-> FALSE]
    /\ UNCHANGED <<pc, market, is_running, sig_index, signals, decision, db_open,
                   iterations, pass_raised, last_market_data_time, genVars,
                   clientVars, fuseVars, rpcVars, signVars, raceVars, probeVars>>

\* get_transactions: `for i in range(0, min(len(signatures_result), limit),
\* batch_size)`: the next batch is sliced and, after the first batch, a second
\* is slept; after the last batch the transactions are returned.
TxBatch ==
    /\ pc = "solana"
    /\ tx.pc = "batch"
    /\ IF tx.i < Min(tx.found, tx.limit)
       THEN tx' = [tx EXCEPT
                      !.pc = "item",
                      !.left = Min(batch_size, tx.found - tx.i),
                      !.events = IF BatchDelayDue(tx.i)
                                 THEN Append(tx.events, batch_delay)
                                 ELSE tx.events]
       ELSE tx' = [tx EXCEPT !.pc = "returned"]
    /\ UNCHANGED <<pc, market, is_running, sig_index, signals, decision, db_open,
                   iterations, pass_raised, last_market_data_time, genVars,
                   clientVars, fuseVars, rpcVars, signVars, raceVars, probeVars>>

\* get_transactions: one signature of the batch: time.sleep(0.2), the
\* getTransaction request, and the TransactionInfo appended when there is a
\* response; an exception is logged and the loop goes on.
TxItem ==
    /\ pc = "solana"
    /\ tx.pc = "item"
    /\ \E outcome \in RequestOutcomes :
          tx' = [tx EXCEPT
                    !.events = tx.events \o <<item_delay, RequestMark>>,
                    !.processed = tx.processed + 1,
                    !.transactions = IF outcome = "result"
                                     THEN tx.transactions + 1
                                     ELSE tx.transactions,
                    !.failed = tx.failed \/ outcome # "result",
                    !.left = tx.left - 1,
                    !.i = IF tx.left = 1 THEN tx.i + batch_size ELSE tx.i,
                    !.pc = IF tx.left = 1 THEN "batch" ELSE "item"]
    /\ UNCHANGED <<pc, market, is_running, sig_index, signals, decision, db_open,
                   iterations, pass_raised, last_market_data_time, genVars,
                   clientVars, fuseVars, rpcVars, signVars, raceVars, probeVars>>

TxInit ==
    /\ GeneratorInit
    /\ LoopInit
    /\ FuseIdle
    /\ RpcIdle
    /\ TxIdle
    /\ ProbeIdle
    /\ SignIdle
    /\ RaceIdle
    /\ pc = "solana"
    /\ market = "flat"
    /\ focus = "none"

TxNext ==
    \/ TxCall
    \/ TxBatch
    \/ TxItem

SpecTx == TxInit /\ [][TxNext]_vars

----------------------------------------------------------------------------
(* solana_client.py and order_flow.py: the whale transfers.  A value       *)
(* None of the code is the string "None"; lamports are counted in SOL.     *)

\* threshold_sol of get_whale_transfers
threshold_sol == 500
\* the SOL price track_whale_transfers reads from the ticker, in dollars
sol_price == 100
\* the most transactions get_transactions returns here
MaxTransactions == 2

\* one of the addresses _is_cex_address knows, and a wallet it does not know
Addresses == {"9WzDXwBbmkg8ZTbNMqUxvQRAyrZzDsGYdLVL9zYtAWWM", "wallet"}

\* address in cex_addresses
_is_cex_address(address) == address = "9WzDXwBbmkg8ZTbNMqUxvQRAyrZzDsGYdLVL9zYtAWWM"

\* the getTransaction responses: meta.err, and the parsed transfer
\* instruction if there is one
TxResponses ==
    [err : BOOLEAN, transfer : {FALSE}, source : {"None"},
     destination : {"None"}, lamports : {0}]
    \cup [err : BOOLEAN, transfer : {TRUE}, source : Addresses,
          destination : Addresses, lamports : {100, 500, 2000}]

\* TransactionInfo(...) as get_transactions builds it: tx_type, program_id
\* and instructions_data keep their default None
TransactionInfo(tx_response) ==
    [is_success   |-> ~tx_response.err,
     from_address |-> tx_response.source,
     to_address   |-> tx_response.destination,
     lamports     |-> IF tx_response.transfer THEN tx_response.lamports ELSE -1,
     tx_type      |-> "None",
     program_id   |-> "None"]

\* _analyze_transaction_type as far as the addresses decide it (program_id
\* and instructions_data are None); SolanaClient defines it and nothing
\* calls it
_analyze_transaction_type(tx_info) ==
    IF tx_info.from_address # "None" /\ _is_cex_address(tx_info.from_address) THEN "CEX"
    ELSE IF tx_info.to_address # "None" /\ _is_cex_address(tx_info.to_address) THEN "CEX"
    ELSE "UNKNOWN"

\* get_whale_transfers: the successful transactions of at least the
\* threshold (lamports None is -1 here)
get_whale_transfers(transactions) ==
    SelectSeq(transactions, LAMBDA t :
        t.is_success /\ t.lamports # -1 /\ t.lamports >= threshold_sol)

\* the dollar values of the transfers of `kind`, summed in list order
RECURSIVE ValueOf(_, _)
ValueOf(whale_transfers, kinds) ==
    IF whale_transfers = <<>> THEN 0
    ELSE (IF Head(whale_transfers).tx_type \in kinds
          THEN Head(whale_transfers).lamports * sol_price ELSE 0)
         + ValueOf(Tail(whale_transfers), kinds)

\* track_whale_transfers from `for tx in whale_transfers` on
WhaleData(whale_transfers) ==
    [transfers     |-> whale_transfers,
     total_value   |-> ValueOf(whale_transfers, {"CEX", "DEX", "UNKNOWN", "None"}),
     cex_transfers |-> SelectSeq(whale_transfers, LAMBDA t : t.tx_type = "CEX"),
     dex_transfers |-> SelectSeq(whale_transfers, LAMBDA t : t.tx_type = "DEX"),
     cex_value     |-> ValueOf(whale_transfers, {"CEX"}),
     dex_value     |-> ValueOf(whale_transfers, {"DEX"})]

\* whale_data = self.order_flow.track_whale_transfers(), on the transactions
\* get_transactions builds from the responses
TrackWhaleTransfers ==
    /\ pc = "whale"
    /\ probe.fn = "getTransaction"
    /\ probe' = [fn |-> "track_whale_transfers",
                 responses |-> probe.responses,
                 whale_data |-> WhaleData(get_whale_transfers(
                     [i \in 1..Len(probe.responses) |->
                         TransactionInfo(probe.responses[i])]))]
    /\ UNCHANGED <<genVars, loopVars, clientVars, fuseVars, rpcVars, signVars,
                   raceVars, txVars>>

WhaleInit ==
    /\ GeneratorInit
    /\ LoopInit
    /\ FuseIdle
    /\ RpcIdle
    /\ TxIdle
    /\ SignIdle
    /\ RaceIdle
    /\ pc = "whale"
    /\ market = "flat"
    /\ focus = "ORDER_FLOW"
    /\ \E n \in 0..MaxTransactions :
          \E responses \in [1..n -> TxResponses] :
             probe = [fn |-> "getTransaction", responses |-> responses]

WhaleNext == TrackWhaleTransfers

SpecWhale == WhaleInit /\ [][WhaleNext]_vars

----------------------------------------------------------------------------
(* binance_client.py: BinanceClient._request called by a caller that keeps *)
(* some of its params dicts between calls.                                 *)

\* the most signed requests of one behaviour
MaxSignedCalls == 3
\* the model stops the millisecond clock after this many milliseconds
MaxElapsedMs == 4
\* milliseconds that may pass between two calls
MsSteps == {1, 2}

\* the params dicts the caller keeps
MappingIds == {"a", "b"}

\* a value of a params dict: a str, an int or the hex digest of an HMAC
StrValue(text) == [kind |-> "str", text |-> text, num |-> 0, over |-> <<>>]
IntValue(num) == [kind |-> "int", text |-> "", num |-> num, over |-> <<>>]
\* hmac.new(api_secret, query_string, sha256).hexdigest(): the digest stands
\* for the string it was computed over (no two strings share a digest)
HmacValue(query_string) ==
    [kind |-> "hmac", text |-> "", num |-> 0, over |-> query_string]

\* A params dict is the sequence of its items in insertion order.
Item(key, value) == [key |-> key, value |-> value]

\* the params dicts callers pass, e.g. {"symbol": symbol, "limit": limit}
ParamChoices ==
    { <<Item("symbol", StrValue("SOLUSDT"))>>,
      <<Item("symbol", StrValue("SOLUSDT")), Item("limit", IntValue(100))>> }

HasKey(d, key) == \E i \in 1..Len(d) : d[i].key = key

\* d[key] = value: a key already present keeps its place
SetItem(d, key, value) ==
    IF HasKey(d, key)
    THEN [i \in 1..Len(d) |-> IF d[i].key = key THEN Item(key, value) ELSE d[i]]
    ELSE Append(d, Item(key, value))

\* urlencode(params): the pairs key=value of the items, in the dict's order
urlencode(params) == [i \in 1..Len(params) |-> <<params[i].key, params[i].value>>]

_generate_signature(params) == HmacValue(urlencode(params))

\* params["timestamp"] = int(time.time() * 1000)
Stamped(params) == SetItem(params, "timestamp", IntValue(clock_ms))

\* params["signature"] = self._generate_signature(params)
Signed(params) == SetItem(params, "signature", _generate_signature(params))

\* _request: params = kwargs.get("params", {}); when signed, the timestamp and
\* the signature are set in that very dict, which is the caller's when the
\* caller passed one; then the request is sent.
BinanceRequest ==
    /\ pc = "binance"
    /\ \E signed \in BOOLEAN, src \in MappingIds \cup {"literal", "default"} :
          LET params == IF src \in MappingIds THEN mappings[src]
                        ELSE IF src = "literal"
                             THEN <<Item("symbol", StrValue("SOLUSDT"))>>
                             ELSE <<>>
              stamped == Stamped(params)
              final == IF signed THEN Signed(stamped) ELSE params
          IN  /\ signed => sign_count < MaxSignedCalls
              /\ request' = [signed |-> signed,
                             params |-> final,
                             signed_string |->
                                 IF signed THEN urlencode(stamped) ELSE <<>>,
                             time |-> clock_ms]
              /\ mappings' = IF src \in MappingIds
                             THEN [mappings EXCEPT ![src] = final]
                             ELSE mappings
              /\ sign_count' = IF signed THEN sign_count + 1 ELSE sign_count
    /\ UNCHANGED <<clock_ms, urlVars, genVars, loopVars, clientVars, fuseVars,
                   rpcVars, raceVars,
                   txVars, probeVars>>

\* time passes between two calls
MsTick ==
    /\ pc = "binance"
    /\ \E d \in MsSteps :
          /\ clock_ms + d <= StartTime * 1000 + MaxElapsedMs
          /\ clock_ms' = clock_ms + d
    /\ UNCHANGED <<mappings, request, sign_count, urlVars, genVars, loopVars,
                   clientVars, fuseVars, rpcVars, raceVars,
                   txVars, probeVars>>

SignInit ==
    /\ GeneratorInit
    /\ LoopInit
    /\ FuseIdle
    /\ RpcIdle
    /\ TxIdle
    /\ ProbeIdle
    /\ RaceIdle
    /\ pc = "binance"
    /\ market = "flat"
    /\ focus = "none"
    /\ clock_ms = StartTime * 1000
    /\ mappings \in [MappingIds -> ParamChoices]
    /\ request = NoRequest
    /\ sign_count = 0
    /\ UrlIdle

SignNext ==
    \/ BinanceRequest
    \/ MsTick

SpecSign == SignInit /\ [][SignNext]_vars

----------------------------------------------------------------------------
(* binance_client.py: the base URL of the spot and the futures methods.    *)
(* A caller is a thread that calls methods of one BinanceClient, one call  *)
(* after the other; each read and each write of self.base_url is a step.   *)

Threads == {1, 2}

\* self.base_url = "https://fapi.binance.com"
futures_base_url == "https://fapi.binance.com"

\* the requests a caller may still start a call after
MaxIssued == 2

\* endpoint of the spot methods get_ticker_24hr and get_order_book
SpotEndpoints == {"/api/v3/ticker/24hr", "/api/v3/depth"}

\* endpoint of get_funding_rate, get_open_interest, get_long_short_ratio
FuturesEndpoints ==
    {"/fapi/v1/premiumIndex", "/fapi/v1/openInterest",
     "/futures/data/globalLongShortAccountRatio"}

\* a caller between two calls
IdleCaller == [pc |-> "idle", endpoint |-> "none", original_base |-> "None", raised |-> FALSE]

\* url = f"{self.base_url}{endpoint}", and whether the request raised
Issue(endpoint, raised) ==
    Append(issued, [endpoint |-> endpoint, base |-> base_url, raised |-> raised])

\* a spot method: self._request("GET", endpoint, params=params)
SpotCall(t) ==
    /\ pc = "urls"
    /\ callers[t].pc = "idle"
    /\ Len(issued) < MaxIssued
    /\ \E endpoint \in SpotEndpoints, raised \in BOOLEAN :
          issued' = Issue(endpoint, raised)
    /\ UNCHANGED <<base_url, callers, clock_ms, mappings, request, sign_count,
                   genVars, loopVars, clientVars, fuseVars, rpcVars, raceVars,
                   txVars, probeVars>>

\* a futures method: original_base = self.base_url
FuturesSave(t) ==
    /\ pc = "urls"
    /\ callers[t].pc = "idle"
    /\ Len(issued) < MaxIssued
    /\ \E endpoint \in FuturesEndpoints :
          callers' = [callers EXCEPT ![t] =
              [pc |-> "saved", endpoint |-> endpoint,
               original_base |-> base_url, raised |-> FALSE]]
    /\ UNCHANGED <<base_url, issued, clock_ms, mappings, request, sign_count,
                   genVars, loopVars, clientVars, fuseVars, rpcVars, raceVars,
                   txVars, probeVars>>

\* a futures method: self.base_url = "https://fapi.binance.com"
FuturesSwap(t) ==
    /\ pc = "urls"
    /\ callers[t].pc = "saved"
    /\ base_url' = futures_base_url
    /\ callers' = [callers EXCEPT ![t].pc = "try"]
    /\ UNCHANGED <<issued, clock_ms, mappings, request, sign_count,
                   genVars, loopVars, clientVars, fuseVars, rpcVars, raceVars,
                   txVars, probeVars>>

\* a futures method: result = self._request("GET", endpoint, params=params)
FuturesRequest(t) ==
    /\ pc = "urls"
    /\ callers[t].pc = "try"
    /\ \E raised \in BOOLEAN :
          /\ issued' = Issue(callers[t].endpoint, raised)
          /\ callers' = [callers EXCEPT ![t].pc = "finally", ![t].raised = raised]
    /\ UNCHANGED <<base_url, clock_ms, mappings, request, sign_count,
                   genVars, loopVars, clientVars, fuseVars, rpcVars, raceVars,
                   txVars, probeVars>>

\* a futures method that restores base_url after `return result` only
RestoreAfterReturn(t) ==
    /\ pc = "urls"
    /\ callers[t].pc = "finally"
    /\ base_url' = IF callers[t].raised THEN base_url ELSE callers[t].original_base
    /\ callers' = [callers EXCEPT ![t] = IdleCaller]
    /\ UNCHANGED <<issued, clock_ms, mappings, request, sign_count,
                   genVars, loopVars, clientVars, fuseVars, rpcVars, raceVars,
                   txVars, probeVars>>

\* a futures method: finally: self.base_url = original_base, then the
\* result is returned or the exception goes on to the caller
FuturesRestore(t) ==
    /\ pc = "urls"
    /\ callers[t].pc = "finally"
    /\ base_url' = callers[t].original_base
    /\ callers' = [callers EXCEPT ![t] = IdleCaller]
    /\ UNCHANGED <<issued, clock_ms, mappings, request, sign_count,
                   genVars, loopVars, clientVars, fuseVars, rpcVars, raceVars,
                   txVars, probeVars>>

\* a new BinanceClient and the callers `who`
UrlInit(who) ==
    /\ GeneratorInit
    /\ LoopInit
    /\ FuseIdle
    /\ RpcIdle
    /\ TxIdle
    /\ ProbeIdle
    /\ RaceIdle
    /\ pc = "urls"
    /\ market = "flat"
    /\ focus = "none"
    /\ clock_ms = 0
    /\ mappings = <<>>
    /\ request = NoRequest
    /\ sign_count = 0
    /\ base_url = spot_base_url
    /\ callers = [t \in who |-> IdleCaller]
    /\ issued = <<>>

UrlNext ==
    \/ \E t \in DOMAIN callers : SpotCall(t)
    \/ \E t \in DOMAIN callers : FuturesSave(t)
    \/ \E t \in DOMAIN callers : FuturesSwap(t)
    \/ \E t \in DOMAIN callers : FuturesRequest(t)
    \/ \E t \in DOMAIN callers : FuturesRestore(t)

\* two threads call methods of one BinanceClient
UrlThreadsInit == UrlInit(Threads)

SpecUrl == UrlThreadsInit /\ [][UrlNext]_vars

\* one thread calls methods of a BinanceClient, one after the other
UrlSeqInit == UrlInit({1})

SpecUrlSeq == UrlSeqInit /\ [][UrlNext]_vars

----------------------------------------------------------------------------
(* Two threads that call the same generate_* function of one               *)
(* SignalGenerator.  A thread can be preempted between any two statements; *)
(* the indicator calls, which wait for the network, are where it matters.  *)

\* seconds that may pass between two steps of the threads
RaceSteps == {30, 60}

\* generate_*: thread t runs the cache-hit test; on a hit it returns the
\* cached signal, otherwise it goes on to the indicator calls.
RaceEnter(t) ==
    /\ pc = "race"
    /\ thread_pc[t] = "idle"
    /\ IF CacheMiss(focus)
       THEN /\ thread_pc' = [thread_pc EXCEPT ![t] = "computing"]
            /\ UNCHANGED last_call
       ELSE /\ thread_pc' = [thread_pc EXCEPT ![t] = "returned"]
            /\ last_call' = [name |-> focus, outcome |-> "cached",
                             result |-> signal_cache[focus],
                             indicator_calls |-> 0, failed_call |-> 0]
    /\ UNCHANGED <<now, last_update, signal_cache, next_oid, loopVars,
                   clientVars, fuseVars, rpcVars, signVars,
                   txVars, probeVars>>

\* generate_*: the indicator calls of thread t have returned; the SignalData
\* is stamped and stored, last_update is set, and the call returns.
RaceStore(t) ==
    /\ pc = "race"
    /\ thread_pc[t] = "computing"
    /\ \E gap \in ClockGaps :
          LET reading == Reading(focus, market)
              signal == SignalData(focus, now, reading.direction,
                                   reading.signal_strength, reading.confidence,
                                   next_oid)
          IN  /\ now + gap <= MaxTime
              /\ signal_cache' = DictPut(signal_cache, focus, signal)
              /\ last_update' = DictPut(last_update, focus, now + gap)
              /\ now' = now + gap
              /\ next_oid' = next_oid + 1
              /\ last_call' = [name |-> focus, outcome |-> "computed",
                               result |-> signal,
                               indicator_calls |-> Len(IndicatorCalls[focus]),
                               failed_call |-> 0]
    /\ thread_pc' = [thread_pc EXCEPT ![t] = "returned"]
    /\ UNCHANGED <<loopVars, clientVars, fuseVars, rpcVars, signVars,
                   txVars, probeVars>>

\* generate_*: an indicator call of thread t raises; nothing is stored.
RaceRaises(t) ==
    /\ pc = "race"
    /\ thread_pc[t] = "computing"
    /\ \E fail_at \in FailurePoints(focus) \ {0} :
          last_call' = [name |-> focus, outcome |-> "raised",
                        result |-> NoSignal,
                        indicator_calls |-> fail_at, failed_call |-> fail_at]
    /\ thread_pc' = [thread_pc EXCEPT ![t] = "returned"]
    /\ UNCHANGED <<now, last_update, signal_cache, next_oid, loopVars,
                   clientVars, fuseVars, rpcVars, signVars,
                   txVars, probeVars>>

\* thread t is ready for its next call
RaceAgain(t) ==
    /\ pc = "race"
    /\ thread_pc[t] = "returned"
    /\ thread_pc' = [thread_pc EXCEPT ![t] = "idle"]
    /\ UNCHANGED <<genVars, loopVars, clientVars, fuseVars, rpcVars, signVars,
                   txVars, probeVars>>

\* time passes while the threads run or wait
RaceTick ==
    /\ pc = "race"
    /\ \E d \in RaceSteps :
          /\ now + d <= MaxTime
          /\ now' = now + d
    /\ UNCHANGED <<last_update, signal_cache, next_oid, last_call, loopVars,
                   clientVars, fuseVars, rpcVars, signVars, raceVars,
                   txVars, probeVars>>

RaceInit ==
    /\ GeneratorInit
    /\ LoopInit
    /\ FuseIdle
    /\ RpcIdle
    /\ TxIdle
    /\ ProbeIdle
    /\ SignIdle
    /\ pc = "race"
    /\ market \in Markets
    /\ focus \in Names
    /\ thread_pc = [t \in Threads |-> "idle"]

RaceNext ==
    \/ \E t \in Threads : RaceEnter(t)
    \/ \E t \in Threads : RaceStore(t)
    \/ \E t \in Threads : RaceRaises(t)
    \/ \E t \in Threads : RaceAgain(t)
    \/ RaceTick

SpecRace == RaceInit /\ [][RaceNext]_vars

----------------------------------------------------------------------------
(* Properties of the signal cache (SpecCache) *)

\* A step in which a generate_* function was called and did something a
\* caller can tell from the previous call.
CallStep == last_call' # last_call \/ next_oid' # next_oid

\* C1: a generate_* call made while the update interval has not elapsed
\* since last_update[name] and the cached signal is within its validity
\* period returns the identical cached SignalData object, makes no indicator
\* call and leaves signal_cache and last_update unchanged.
C1_CachedCallReturnsCachedObject ==
    [][\A n \in Names :
          ( /\ CallStep
            /\ last_call'.name = n
            /\ n \in DOMAIN last_update
            /\ n \in DOMAIN signal_cache
            /\ now - last_update[n] < INDICATORS[n].update_interval
            /\ now - signal_cache[n].timestamp <= INDICATORS[n].validity_period )
          => ( /\ last_call'.outcome = "cached"
               /\ last_call'.result = signal_cache[n]
               /\ last_call'.indicator_calls = 0
               /\ signal_cache' = signal_cache
               /\ last_update' = last_update )]_vars

\* C1 witness: a second call, 55 s after the signal was computed, has been
\* served from the cache.
C1_Witness ==
    /\ focus \in DOMAIN signal_cache
    /\ last_call.outcome = "cached"
    /\ last_call.result = signal_cache[focus]
    /\ now - last_update[focus] = 55

\* C2 as claimed: once now - last_update[name] >= update_interval, the next
\* generate_* call recomputes once (every indicator call of the function is
\* made once), stores the fresh signal in signal_cache[name] and sets
\* last_update[name] to the clock.
C2_DueCallRecomputesAndStores ==
    [][\A n \in Names :
          ( /\ CallStep
            /\ last_call'.name = n
            /\ n \in DOMAIN last_update
            /\ now - last_update[n] >= INDICATORS[n].update_interval )
          => ( /\ last_call'.outcome = "computed"
               /\ last_call'.indicator_calls = Len(IndicatorCalls[n])
               /\ n \in DOMAIN signal_cache'
               /\ signal_cache'[n] = last_call'.result
               /\ signal_cache'[n].oid = next_oid
               /\ last_update'[n] = now' )]_vars

\* C3 as claimed: when an indicator call raises while a signal is computed,
\* the generate_* function still returns a degraded signal (strength 0,
\* direction 0).
C3_FailureYieldsDegradedSignal ==
    last_call.failed_call # 0 =>
        /\ last_call.outcome = "computed"
        /\ last_call.result.strength = 0
        /\ last_call.result.direction = 0

----------------------------------------------------------------------------
(* Properties of the polling loop (Spec) *)

\* C4 as claimed: an error raised while a signal is computed never ends the
\* polling loop; the loop is left only once is_running is false.
C4_LoopEndsOnlyWhenStopped ==
    pc \in {"finally", "returned"} => ~is_running

\* C5 as claimed: when the computation of one signal fails during a pass,
\* the other configured signals that are valid are still fused into a
\* Decision in that pass.
C5_FailedPassStillFuses ==
    ( /\ pc \in {"finally", "returned"}
      /\ pass_raised # {}
      /\ \E n \in Names \ pass_raised :
            /\ n \in DOMAIN signal_cache
            /\ now - signal_cache[n].timestamp <= INDICATORS[n].validity_period )
    => decision # NoDecision

\* C27 as claimed: when get_all_signals has returned and process_signals is
\* about to run in the same iteration, every signal returned is still within
\* the validity period of its name, so that the Decision lists every
\* configured signal, however long the other computations of the pass took.
C27_ReturnedSignalsStillValid ==
    FuseDue =>
        \A i \in 1..Len(signals) :
            now - signals[i].timestamp
                <= INDICATORS[signals[i].name].validity_period

\* C29 as claimed: _should_update_signal(name) returns true for a configured
\* name that has no last_update entry, at any clock value, and otherwise
\* returns true iff now - last_update[name] >= update_interval(name).
C29_DueWhenNeverComputed ==
    [][(probe' # probe /\ focus \in Names) =>
          probe'.result =
              (IF focus \notin DOMAIN last_update
               THEN TRUE
               ELSE now - last_update[focus] >= INDICATORS[focus].update_interval)]_vars

\* C34: a call of a generate_* function that raises leaves signal_cache and
\* last_update exactly as they were before the call, for the name of the
\* call and for every other name.
C34_RaisingCallStoresNothing ==
    [][(CallStep /\ last_call'.outcome = "raised") =>
          /\ signal_cache' = signal_cache
          /\ last_update' = last_update]_vars

\* C34 witness: generate_scalp_signal has raised in a pass whose five earlier
\* signals are in the cache.
C34_Witness ==
    /\ last_call.outcome = "raised"
    /\ last_call.name = "SCALP"
    /\ DOMAIN signal_cache = Names \ {"SCALP"}
    /\ DOMAIN last_update = Names \ {"SCALP"}

\* C35: signal_cache and last_update always have the same keys; each key is
\* a configured signal name, its cached Signal carries that name and the
\* validity period configured for it, and last_update[name] is not before
\* the timestamp of the cached Signal.
C35_CacheAndLastUpdateAgree ==
    /\ DOMAIN signal_cache = DOMAIN last_update
    /\ DOMAIN signal_cache \subseteq Names
    /\ \A n \in DOMAIN signal_cache :
          /\ signal_cache[n].name = n
          /\ signal_cache[n].validity = INDICATORS[n].validity_period
          /\ last_update[n] >= signal_cache[n].timestamp

\* C35 witness: the signal of the client's name has been recomputed, the
\* second Signal replacing the first, and last_update was read a second
\* after the Signal was stamped.
C35_Witness ==
    /\ pc = "client"
    /\ focus \in DOMAIN signal_cache
    /\ signal_cache[focus].oid >= 2
    /\ last_update[focus] > signal_cache[focus].timestamp

\* C37: start() attempts a market snapshot in its first iteration; every
\* later attempt is in an iteration that starts at least 300 s after the
\* iteration of the previous attempt, also when that attempt failed; and
\* after an attempt, failed or not, the iteration goes on to get_all_signals.
C37_SnapshotEvery300s ==
    /\ [](pc = "rest" => probe.fn = "_store_market_data")
    /\ [][probe' # probe =>
             /\ probe'.time = now
             /\ probe.fn = "none" => iterations = 0
             /\ probe.fn # "none" => probe'.time - probe.time >= 300
             /\ pc' = "rest"]_vars

\* C37 witness: the first snapshot failed, the loop went on polling, and a
\* second snapshot has been attempted 300 s or more later.
C37_Witness ==
    /\ pc = "rest"
    /\ probe.fn = "_store_market_data"
    /\ probe.attempts = 2
    /\ probe.failures >= 1
    /\ probe.time >= StartTime + 300
    /\ iterations >= 2

----------------------------------------------------------------------------
(* Properties of the fusion (SpecFuse) *)

\* C10: every Decision whose action is BUY or SELL has confidence >= 0.7 and
\* strength >= 30.0; a weighted confidence or strength below its threshold
\* forces HOLD whatever the weighted direction.
C10_ThresholdsVeto ==
    (pc = "fused" /\ fuse_out # NoDecision) =>
        /\ fuse_out.action \in {"BUY", "SELL", "HOLD"}
        /\ fuse_out.action \in {"BUY", "SELL"} =>
              /\ ~FLt(fuse_out.confidence, Hundredths[70])
              /\ ~FLt(fuse_out.strength, FFromInt(30))

\* C10 witness: the weighted direction is above 0.3, the weighted confidence
\* is below 0.7, and the decision is HOLD.
C10_Witness ==
    /\ pc = "fused"
    /\ fuse_out # NoDecision
    /\ FGt(fuse_out.weighted_direction, Hundredths[30])
    /\ FLt(fuse_out.confidence, Hundredths[70])
    /\ ~FLt(fuse_out.strength, FFromInt(30))
    /\ fuse_out.action = "HOLD"

\* C16: two successive recomputations of a signal name, each of which
\* writes the cache, are at least update_interval(name) seconds apart, by the
\* clock reads that stamp the two signals.
C16_RecomputationsSpaced ==
    [][\A n \in Names :
          ( /\ n \in DOMAIN signal_cache
            /\ signal_cache'[n] # signal_cache[n] )
          => signal_cache'[n].timestamp - signal_cache[n].timestamp
                 >= INDICATORS[n].update_interval]_vars

\* C16 witness: a name has been recomputed a second time and its second
\* signal is in the cache.
C16_Witness ==
    /\ pc = "client"
    /\ last_call.outcome = "computed"
    /\ focus \in DOMAIN signal_cache
    /\ signal_cache[focus] = last_call.result
    /\ signal_cache[focus].oid >= 2

\* the signals of the observed call that are inside their validity window
\* when it runs, in the order of the dict
FreshKeys ==
    SelectSeq(fuse_in.keys, LAMBDA n :
        fuse_in.time - fuse_in.sigs[n].timestamp <= INDICATORS[n].validity_period)

\* the Decision vetoes nothing: its confidence is at least 0.7 and its
\* strength at least 30.0
NoVeto(d) == FGe(d.confidence, Hundredths[70]) /\ FGe(d.strength, FFromInt(30))

\* C11: when neither threshold vetoes, the action is BUY iff the weighted
\* direction is above 0.3, SELL iff it is below -0.3, and HOLD otherwise, also
\* when the weighted direction is exactly 0.3 or -0.3.
C11_DirectionDecidesAction ==
    (pc = "fused" /\ fuse_out # NoDecision /\ NoVeto(fuse_out)) =>
        /\ fuse_out.action = "BUY" <=> FGt(fuse_out.weighted_direction, Hundredths[30])
        /\ fuse_out.action = "SELL" <=>
               FLt(fuse_out.weighted_direction, FNeg(Hundredths[30]))
        /\ fuse_out.action = "HOLD" <=>
               /\ FGe(Hundredths[30], fuse_out.weighted_direction)
               /\ FGe(fuse_out.weighted_direction, FNeg(Hundredths[30]))

\* C11 witness: no threshold vetoes, the weighted direction is exactly 0.3
\* and the action is HOLD.
C11_Witness ==
    /\ pc = "fused"
    /\ fuse_out # NoDecision
    /\ NoVeto(fuse_out)
    /\ FEq(fuse_out.weighted_direction, Hundredths[30])
    /\ fuse_out.action = "HOLD"

\* C12 as claimed: when all valid signals share a direction d # 0, a strength
\* magnitude s >= 30 and a confidence c >= 0.7, the Decision has action BUY
\* (d = 1) or SELL (d = -1), confidence c and strength s.
C12_UnanimousSignals ==
    \A d \in {-1, 1}, s \in {30, 80}, c \in {70, 90} :
        (/\ pc = "fused"
         /\ FreshKeys # <<>>
         /\ \A i \in 1..Len(FreshKeys) :
               /\ fuse_in.sigs[FreshKeys[i]].direction = d
               /\ Abs(fuse_in.sigs[FreshKeys[i]].strength) = s
               /\ fuse_in.sigs[FreshKeys[i]].confidence = c) =>
            /\ fuse_out # NoDecision
            /\ fuse_out.action = (IF d = 1 THEN "BUY" ELSE "SELL")
            /\ FEq(fuse_out.confidence, Hundredths[c])
            /\ FEq(fuse_out.strength, FFromInt(s))

\* C13: process_signals returns None when the mapping is empty and when every
\* signal of it is past its validity window.
C13_NothingValidNoDecision ==
    (pc = "fused" /\ FreshKeys = <<>>) => fuse_out = NoDecision

\* C13 witness: signals were passed, all of them expired, and None came back.
C13_Witness ==
    /\ pc = "fused"
    /\ fuse_in.keys # <<>>
    /\ FreshKeys = <<>>
    /\ fuse_out = NoDecision

\* C14: the Decision's direction, strength and confidence are the sums over
\* the valid signals of direction, |strength| and confidence times
\* weight(name), divided by the sum of weight(name) over the same signals;
\* an expired signal adds to neither.
C14_NormalisedOverValidSignals ==
    (pc = "fused" /\ fuse_out # NoDecision) =>
        LET w == _calculate_signal_weights
            total == SumOver(FreshKeys, w)
        IN  /\ FEq(fuse_out.weighted_direction,
                   FDiv(SumOver(FreshKeys, [n \in DOMAIN fuse_in.sigs |->
                            FMul(FFromInt(fuse_in.sigs[n].direction), w[n])]), total))
            /\ FEq(fuse_out.strength,
                   FDiv(SumOver(FreshKeys, [n \in DOMAIN fuse_in.sigs |->
                            FMul(FFromInt(Abs(fuse_in.sigs[n].strength)), w[n])]), total))
            /\ FEq(fuse_out.confidence,
                   FDiv(SumOver(FreshKeys, [n \in DOMAIN fuse_in.sigs |->
                            FMul(Hundredths[fuse_in.sigs[n].confidence], w[n])]), total))
            /\ Len(fuse_out.signals) = Len(FreshKeys)

\* C14 witness: a Decision made from a mapping that holds a valid and an
\* expired signal.
C14_Witness ==
    /\ pc = "fused"
    /\ fuse_out # NoDecision
    /\ FreshKeys # <<>>
    /\ Len(FreshKeys) < Len(fuse_in.keys)

\* C28: the signals a Decision lists are exactly the input signals with
\* timestamp + validity_period(name) >= fusion time, in input order; none of
\* them is older at the decision timestamp than the validity period of its
\* name, and the Decision is the one the still valid signals alone give, so
\* that no expired signal contributes to it.
C28_OnlyValidSignalsContribute ==
    (pc = "fused" /\ fuse_out # NoDecision) =>
        /\ fuse_out.signals = [i \in 1..Len(FreshKeys) |-> fuse_in.sigs[FreshKeys[i]]]
        /\ \A i \in 1..Len(fuse_out.signals) :
               /\ fuse_out.signals[i].timestamp
                      + INDICATORS[fuse_out.signals[i].name].validity_period
                      >= fuse_in.time
               /\ fuse_out.timestamp - fuse_out.signals[i].timestamp
                      <= INDICATORS[fuse_out.signals[i].name].validity_period
        /\ fuse_out = process_signals(FreshKeys, fuse_in.sigs, fuse_in.time)

\* C28 witness: of two input signals the first has expired and the second is
\* at the last second of its validity; the Decision lists the second only.
C28_Witness ==
    /\ pc = "fused"
    /\ fuse_out # NoDecision
    /\ Len(fuse_in.keys) = 2
    /\ Len(fuse_out.signals) = 1
    /\ fuse_out.signals[1].name = fuse_in.keys[2]
    /\ fuse_out.timestamp - fuse_out.signals[1].timestamp
           = INDICATORS[fuse_in.keys[2]].validity_period

----------------------------------------------------------------------------
(* Shutdown of TradingSystem.start (SpecLive) *)

----------------------------------------------------------------------------
(* Properties of SolanaClient._make_request (SpecRpc) *)

\* C6 as claimed: _make_request issues at most (max_retries + 1) x poolSize
\* requests before it returns or raises.
C6_RequestsBounded ==
    n_requests <= (max_retries + 1) * Len(endpoints)

\* C7 as claimed: once the retry counter exceeds max_retries, the call has
\* failed with an error that carries the last observed error, whatever the
\* kind of the failures.
C7_ExhaustedRetriesRaise ==
    retry_count > max_retries =>
        /\ rpc_outcome.kind = "raised"
        /\ rpc_outcome.error = last_error

\* C8 as claimed: when every response is HTTP 429 without Retry-After, the
\* delays observed are 2 s, 4 s and 8 s, and the call then fails with the
\* exhausted-retries error.
C8_BackoffDelays ==
    (rpc_pc = "done" /\ seen = {"http429"}) =>
        /\ delays = <<2, 4, 8>>
        /\ rpc_outcome.kind = "raised"

\* C9: when the first k < poolSize endpoints tried answer HTTP 5xx and the
\* next one answers 200 with a result, _make_request returns that endpoint's
\* result and retry_count is still 0.
C9_FailoverWithinCycleCountsNoRetry ==
    (rpc_pc = "done" /\ seen \subseteq {"http5xx", "ok"} /\ "ok" \in seen
        /\ n_requests <= Len(endpoints)) =>
        /\ rpc_outcome.kind = "result"
        /\ rpc_outcome.endpoint = n_requests - 1
        /\ retry_count = 0

\* C9 witness: two endpoints answered HTTP 5xx, the third answered 200.
C9_Witness ==
    /\ rpc_pc = "done"
    /\ seen = {"http5xx", "ok"}
    /\ n_requests = 3
    /\ rpc_outcome.kind = "result"
    /\ rpc_outcome.endpoint = 2

\* C20 as claimed: a response whose error body names a rate limit is handled
\* like an HTTP 429 or 5xx failure: the endpoint index advances and, when it
\* wraps back to 0, the attempt counter is incremented.
C20_RateLimitBodyCountsAsFailure ==
    [][( /\ n_requests' = n_requests + 1
         /\ last_error' = "ratelimit_body"
         /\ rpc_pc' = "loop" )
       => ( /\ current_endpoint_index' = current_endpoint_index + 1
            /\ Wrapped(current_endpoint_index') => retry_count' = retry_count + 1 )]_vars

\* the kinds of response _make_request treats as a failed request
FailureKinds == {"transport", "http5xx", "http429", "http429_after", "ratelimit_body"}

\* C21 as claimed: a request made in the middle of a cycle, after a failure
\* that did not wrap the endpoint index, is issued without any sleep; when it
\* fails without wrapping as well, no attempt is counted and no sleep follows.
C21_NoSleepWithinCycle ==
    [][( /\ rpc_pc = "loop"
         /\ last_error \in FailureKinds
         /\ ~Wrapped(current_endpoint_index)
         /\ n_requests' = n_requests + 1
         /\ ~Wrapped(current_endpoint_index') )
       => ( /\ retry_count' = retry_count
            /\ slept' = <<>> )]_vars

\* C22 as claimed: after an HTTP 429 response with Retry-After = r the delay
\* before the next request is r seconds: r is slept, and no computed backoff
\* delay is slept before the request that follows.
C22_RetryAfterReplacesBackoff ==
    [][( /\ rpc_pc = "loop"
         /\ last_error = "http429_after"
         /\ n_requests' = n_requests + 1
         /\ rpc_outcome'.kind = "result" )
       => ( /\ slept # <<>>
            /\ slept[Len(slept)] \in RetryAfterValues
            /\ slept' = <<>> )]_vars

\* C23: every _make_request call starts with endpoint index 0 and attempt 0,
\* and its k-th request (k = 0, 1, 2, ...) goes to endpoints[k mod poolSize]:
\* an endpoint that failed is neither skipped nor removed.
C23_RoundRobin ==
    [][/\ (rpc_pc = "idle" /\ rpc_pc' = "loop") =>
              (current_endpoint_index' = 0 /\ retry_count' = 0)
       /\ (n_requests' = n_requests + 1) =>
              /\ current_endpoint_index % Len(endpoints)
                     = n_requests % Len(endpoints)
              /\ rpc_outcome'.kind = "result" =>
                     rpc_outcome'.endpoint = n_requests % Len(endpoints)]_vars

\* C23 witness: the sixth request, after five failed ones, was answered by
\* the second endpoint.
C23_Witness ==
    /\ rpc_pc = "done"
    /\ n_requests = 6
    /\ rpc_outcome.kind = "result"
    /\ rpc_outcome.endpoint = 1

\* C24: a transport failure or a rate-limit response is raised to the caller
\* only when the attempt counter has passed max_retries, while a JSON-RPC
\* error that is no rate-limit error is raised at once, with no other
\* endpoint tried.
C24_FailuresSurfaceOnlyWhenExhausted ==
    /\ [](rpc_outcome.kind = "raised" =>
             \/ rpc_outcome.error = "rpc_error"
             \/ retry_count > max_retries)
    /\ [][(n_requests' = n_requests + 1 /\ last_error' = "rpc_error") =>
             /\ rpc_pc' = "done"
             /\ rpc_outcome'.kind = "raised"
             /\ rpc_outcome'.error = "rpc_error"
             /\ current_endpoint_index' = current_endpoint_index
             /\ retry_count' = retry_count]_vars

\* C24 witness: a call whose requests all met transport failures has raised,
\* after four full cycles.
C24_Witness ==
    /\ rpc_pc = "done"
    /\ rpc_outcome.kind = "raised"
    /\ rpc_outcome.error = "transport"
    /\ seen = {"transport"}
    /\ n_requests = (max_retries + 1) * Len(endpoints)
    /\ retry_count > max_retries

----------------------------------------------------------------------------
(* Properties of the signals the generate_* functions compute              *)
(* (SpecIndicators)                                                        *)

\* C26 as claimed: when the fetch of the on-chain metrics failed and
\* get_onchain_metrics returned zeroed data, the ON_CHAIN signal that
\* generate_onchain_signal produces has strength 0 and direction 0.
C26_FailedFetchGivesDegradedSignal ==
    ("ON_CHAIN" \in DOMAIN signal_cache
        /\ signal_cache["ON_CHAIN"].components.failed) =>
        /\ signal_cache["ON_CHAIN"].direction = 0
        /\ FEq(signal_cache["ON_CHAIN"].strength, FZero)

----------------------------------------------------------------------------
(* Properties of the whale transfers (SpecWhale) *)

\* C31 as claimed: every whale transfer track_whale_transfers reports whose
\* source or destination is a known exchange address is counted in
\* cex_transfers and its value in cex_value.
C31_ExchangeTransfersClassified ==
    probe.fn = "track_whale_transfers" =>
        LET exchange == SelectSeq(probe.whale_data.transfers,
                            LAMBDA t : _analyze_transaction_type(t) = "CEX")
        IN  /\ Len(probe.whale_data.cex_transfers) = Len(exchange)
            /\ probe.whale_data.cex_value
                   = ValueOf(exchange, {"CEX", "DEX", "UNKNOWN", "None"})

----------------------------------------------------------------------------
(* Properties of the base URL of BinanceClient (SpecUrl, SpecUrlSeq) *)

\* C32 as claimed: however the calls of two threads on one BinanceClient
\* interleave, every /api/v3/ request is issued against the spot base URL
\* and every /fapi/ or /futures/data/ request against the futures base URL.
C32_RequestsUseTheirBaseUrl ==
    \A i \in 1..Len(issued) :
        issued[i].base = IF issued[i].endpoint \in SpotEndpoints
                         THEN spot_base_url ELSE futures_base_url

\* C33: when the calls are not interleaved, base_url has after every futures
\* method, returned or raised, the value it had before the call, which is
\* the spot base URL, and every spot call uses the spot base URL.
C33_BaseUrlRestored ==
    /\ (\A t \in DOMAIN callers : callers[t].pc \in {"idle", "saved"}) =>
          base_url = spot_base_url
    /\ \A t \in DOMAIN callers :
          callers[t].pc # "idle" => callers[t].original_base = spot_base_url
    /\ \A i \in 1..Len(issued) :
          issued[i].endpoint \in SpotEndpoints => issued[i].base = spot_base_url

\* C33 witness: a futures request raised, the method has ended, and the spot
\* request made after it went to the spot base URL.
C33_Witness ==
    /\ DOMAIN callers = {1}
    /\ callers[1].pc = "idle"
    /\ Len(issued) = 2
    /\ issued[1].endpoint \in FuturesEndpoints
    /\ issued[1].raised
    /\ issued[1].base = futures_base_url
    /\ issued[2].endpoint \in SpotEndpoints
    /\ issued[2].base = spot_base_url
    /\ base_url = spot_base_url

----------------------------------------------------------------------------
(* Properties of SolanaClient.get_transactions (SpecTx) *)

\* how often `what` occurs in the sequence `events`
RECURSIVE Count(_, _)
Count(events, what) ==
    IF events = <<>> THEN 0
    ELSE Count(SubSeq(events, 1, Len(events) - 1), what)
             + (IF events[Len(events)] = what THEN 1 ELSE 0)

\* C25: in get_transactions a 200 ms delay precedes every getTransaction
\* request and a 1 s delay precedes every batch of 5 but the first, whether
\* or not an earlier request failed: for n signatures processed there are
\* exactly n item delays and ceil(n/5) - 1 batch delays, and n <= 25.
C25_PacingDelays ==
    /\ \A p \in 1..Len(tx.events) :
          tx.events[p] = RequestMark => (p > 1 /\ tx.events[p - 1] = item_delay)
    /\ (tx.pc = "returned" /\ tx.processed >= 1) =>
          /\ Count(tx.events, RequestMark) = tx.processed
          /\ Count(tx.events, item_delay) = tx.processed
          /\ Count(tx.events, batch_delay) = (tx.processed + 4) \div 5 - 1
          /\ tx.processed <= 25
          /\ \A p \in 1..Len(tx.events) :
                tx.events[p] = batch_delay <=> p % (2 * batch_size + 1) = 0

\* C25 witness: seven signatures were processed, a request among them failed,
\* and there were seven item delays and one batch delay.
C25_Witness ==
    /\ tx.pc = "returned"
    /\ tx.processed = 7
    /\ tx.failed
    /\ tx.transactions < 7
    /\ Count(tx.events, item_delay) = 7
    /\ Count(tx.events, batch_delay) = 1

----------------------------------------------------------------------------
(* Properties of BinanceClient._request (SpecSign) *)

\* C18 as claimed: a signed request carries the clock of its own call as
\* timestamp; the string that is signed holds that timestamp and the call's
\* parameters and no signature of an earlier call; the signature sent is the
\* one computed over that string, also when the caller passes the same dict
\* again.
C18_SignedStringIsFresh ==
    request.signed =>
        /\ \E i \in 1..Len(request.signed_string) :
              /\ request.signed_string[i][1] = "timestamp"
              /\ request.signed_string[i][2] = IntValue(request.time)
        /\ \A i \in 1..Len(request.signed_string) :
              request.signed_string[i][1] # "signature"
        /\ \E i \in 1..Len(request.params) :
              /\ request.params[i].key = "signature"
              /\ request.params[i].value = HmacValue(request.signed_string)

----------------------------------------------------------------------------
(* Properties of concurrent callers of SignalGenerator (SpecRace) *)

\* C19 as claimed: when two callers call the same generate_* function
\* concurrently while the name is stale, at most one of them is computing the
\* signal at any time.
C19_OneComputationInFlight ==
    Cardinality({t \in Threads : thread_pc[t] = "computing"}) <= 1

====
